---- MODULE Spec2Model ----
(***************************************************************************)
(* A model of the GOSTnets network-processing library (src/GOSTnets).      *)
(*                                                                         *)
(* The library is a collection of batch functions over an in-memory       *)
(* directed multigraph.  A call is modelled as one action: the inputs of   *)
(* the call are drawn in the initial state (G and args), the action        *)
(* applies the function as the source computes it and stores what the     *)
(* call returns (or the error it raises) in ret.                           *)
(*                                                                         *)
(* A network is a record [nodes, edges]: nodes is the node table, edges    *)
(* the sequence of edge records in insertion order (the order networkx     *)
(* iterates them in for one source node); parallel edges are repeated      *)
(* (u, v) entries, their multigraph key being their rank among the         *)
(* entries of the same (u, v).                                             *)
(***************************************************************************)
EXTENDS Integers, Sequences, FiniteSets, TLC

VARIABLES pc, G, args, ret

vars == <<pc, G, args, ret>>

(***************************************************************************)
(* Bounds of the model.                                                    *)
(***************************************************************************)
NumNodes == 3

MaxEdges == 3

MaxTime == 2

MaxList == 2

(***************************************************************************)
(* Generic helpers.                                                        *)
(***************************************************************************)
Min(S) == CHOOSE x \in S : \A y \in S : x <= y

Max(S) == CHOOSE x \in S : \A y \in S : x >= y

SeqsUpTo(S, n) == UNION {[1..k -> S] : k \in 0..n}

NonEmptySeqsUpTo(S, n) == UNION {[1..k -> S] : k \in 1..n}

Range(s) == {s[i] : i \in DOMAIN s}

IsInjective(s) == \A i, j \in DOMAIN s : s[i] = s[j] => i = j

(***************************************************************************)
(* Routing: networkx shortest-path search as calculate_OD and              *)
(* generate_isochrones call it.                                            *)
(***************************************************************************)

\* One round of edge relaxation from the nodes settled so far.  A candidate
\* distance above the cutoff is discarded, as networkx's Dijkstra does
\* (cutoff = -1 stands for cutoff = None).
Relax(net, weight, cutoff, d) ==
  LET cand(v) == {d[net.edges[k].u] + net.edges[k][weight] :
                    k \in {j \in DOMAIN net.edges :
                             /\ net.edges[j].v = v
                             /\ net.edges[j].u \in DOMAIN d}}
      ok(v)   == {c \in cand(v) : cutoff = -1 \/ c <= cutoff}
      best(v) == (IF v \in DOMAIN d THEN {d[v]} ELSE {}) \cup ok(v)
      dom     == {v \in net.nodes : best(v) # {}}
  IN  [v \in dom |-> Min(best(v))]

RECURSIVE RelaxN(_, _, _, _, _)
RelaxN(net, weight, cutoff, d, n) ==
  IF n = 0 THEN d ELSE RelaxN(net, weight, cutoff, Relax(net, weight, cutoff, d), n - 1)

\* nx.single_source_dijkstra_path_length(G, source, cutoff, weight): the
\* dictionary node -> cost of the cheapest directed path from source, holding
\* only the nodes that are reached.
single_source_dijkstra_path_length(net, source, cutoff, weight) ==
  RelaxN(net, weight, cutoff, (source :> 0), Cardinality(net.nodes))

\* nx.dijkstra_path_length(G, source, target, weight): the cost, or the
\* NetworkXNoPath exception when target is not reached.
dijkstra_path_length(net, source, target, weight) ==
  LET d == single_source_dijkstra_path_length(net, source, -1, weight)
  IN  IF target \in DOMAIN d THEN [ok |-> TRUE, value |-> d[target]]
      ELSE [ok |-> FALSE, value |-> "NetworkXNoPath"]

\* A transposition that was left out: the matrix as it is.
transpose_left_out(M, rows, cols) == M

\* np.transpose of a matrix held as rows of cells.
transpose(M, rows, cols) == [c \in 1..cols |-> [r \in 1..rows |-> M[r][c]]]

\* calculate_OD.  A weighted-origin mapping is held as the sequence of its
\* <<key, value>> items.  What the call does is [raised, OD]: the exception it
\* ends with ("none" when it returns) and the matrix returned.
calculate_OD(net, origins, destinations, fail_value, weight, weighted_origins) ==
  IF weighted_origins
  THEN LET distance(o, d) ==
             dijkstra_path_length(net, origins[o][1], destinations[d], weight)
       IN  IF \E o \in DOMAIN origins, d \in DOMAIN destinations : ~distance(o, d).ok
           THEN [raised |-> "NetworkXNoPath", OD |-> <<>>]
           ELSE [raised |-> "none",
                 OD |-> [o \in DOMAIN origins |->
                          [d \in DOMAIN destinations |->
                            distance(o, d).value * origins[o][2]]]]
  ELSE LET flip  == Len(origins) > Len(destinations)
           orig2 == IF flip THEN destinations ELSE origins
           dest2 == IF flip THEN origins ELSE destinations
           results_dict(o) ==
             single_source_dijkstra_path_length(net, orig2[o], -1, weight)
           OD == [o \in DOMAIN orig2 |->
                   [d \in DOMAIN dest2 |->
                     IF dest2[d] \in DOMAIN results_dict(o)
                     THEN results_dict(o)[dest2[d]]
                     ELSE fail_value]]
       IN  [raised |-> "none",
            OD |-> IF flip THEN transpose(OD, Len(orig2), Len(dest2)) ELSE OD]

(***************************************************************************)
(* SpecOD: calls of calculate_OD on a network with a time on every edge.   *)
(***************************************************************************)
FailValue == 99

NotCalled == [raised |-> "not called", OD |-> <<>>]

TimedEdges(n) ==
  {[u |-> a, v |-> b, time |-> t] : a \in 1..n, b \in 1..n, t \in 1..MaxTime}

\* The search does not depend on the order the edges were inserted in, so
\* the networks of InitOD and InitIso are drawn up to that order: edge
\* sequences ascending in (u, v, time).
EdgeRank(e) == (e.u * (NumNodes + 1) + e.v) * (MaxTime + 1) + e.time

Ascending(es) == \A i, j \in DOMAIN es : i < j => EdgeRank(es[i]) < EdgeRank(es[j])

InitOD ==
  /\ pc = "start"
  /\ \E n \in 1..NumNodes, k \in 0..MaxEdges :
       \E es \in [1..k -> {e \in TimedEdges(n) : e.u # e.v}] :
         /\ Ascending(es)
         /\ G = [nodes |-> 1..n, edges |-> es]
  /\ args \in [origins : NonEmptySeqsUpTo(G.nodes, MaxList),
               destinations : NonEmptySeqsUpTo(G.nodes, MaxList),
               fail_value : {FailValue},
               multipliers : {<<>>}]
  /\ ret = [od |-> NotCalled, swapped |-> NotCalled]

\* calculate_OD(G, origins, destinations, fail_value)
CalculateOD ==
  /\ pc = "start"
  /\ ret' = [ret EXCEPT !.od = calculate_OD(G, args.origins, args.destinations,
                                           args.fail_value, "time", FALSE)]
  /\ pc' = "od"
  /\ UNCHANGED <<G, args>>

\* then calculate_OD(G, destinations, origins, fail_value)
CalculateODSwapped ==
  /\ pc = "od"
  /\ ret' = [ret EXCEPT !.swapped = calculate_OD(G, args.destinations, args.origins,
                                                args.fail_value, "time", FALSE)]
  /\ pc' = "od_swapped"
  /\ UNCHANGED <<G, args>>

\* calculate_OD(G, {origin: multiplier}, destinations, fail_value,
\* weighted_origins = True)
CalculateODWeighted ==
  /\ pc = "start"
  /\ IsInjective(args.origins)
  /\ \E m \in [DOMAIN args.origins -> 1..2] :
       /\ args' = [args EXCEPT !.multipliers = m]
       /\ ret' = [ret EXCEPT !.od =
                    calculate_OD(G, [o \in DOMAIN args.origins |-> <<args.origins[o], m[o]>>],
                                 args.destinations, args.fail_value, "time", TRUE)]
  /\ pc' = "od_weighted"
  /\ UNCHANGED G

NextOD == CalculateOD \/ CalculateODSwapped \/ CalculateODWeighted

SpecOD == InitOD /\ [][NextOD]_vars

\* The least total time of a directed path from a to b in G, as a set: empty
\* when there is no path.
Cost(a, b) ==
  LET d == single_source_dijkstra_path_length(G, a, -1, "time")
  IN  IF b \in DOMAIN d THEN {d[b]} ELSE {}

HasPath(a, b) == Cost(a, b) # {}

FullyConnected == \A a, b \in G.nodes : HasPath(a, b)

\* The matrix has one row per origin and one cell per destination.
Shaped(M, rows, cols) == Len(M) = rows /\ \A r \in 1..rows : Len(M[r]) = cols

\* C1: in unweighted mode calculate_OD returns a len(O) x len(D) matrix whose
\* cell [i][j] is the least total weight of a directed path from O[i] to D[j]
\* whenever such a path exists, whatever the relative lengths of O and D.
C1_CellIsLeastCostFromOriginToDestination ==
  pc = "od" =>
    /\ ret.od.raised = "none"
    /\ Shaped(ret.od.OD, Len(args.origins), Len(args.destinations))
    /\ \A i \in DOMAIN args.origins, j \in DOMAIN args.destinations :
         HasPath(args.origins[i], args.destinations[j]) =>
           ret.od.OD[i][j] \in Cost(args.origins[i], args.destinations[j])

\* C2: for an origin/destination pair with no directed path from the origin
\* to the destination, calculate_OD (list origins or weighted-origin mapping)
\* returns normally and the cell of the pair holds exactly fail_value.
C2_UnreachablePairHoldsFailValue ==
  pc \in {"od", "od_weighted"} =>
    /\ ret.od.raised = "none"
    /\ \A i \in DOMAIN args.origins, j \in DOMAIN args.destinations :
         ~HasPath(args.origins[i], args.destinations[j]) =>
           ret.od.OD[i][j] = args.fail_value

\* ret.swapped is the exact transpose of ret.od.
ExactTransposes ==
  /\ Shaped(ret.od.OD, Len(args.origins), Len(args.destinations))
  /\ Shaped(ret.swapped.OD, Len(args.destinations), Len(args.origins))
  /\ \A i \in DOMAIN args.origins, j \in DOMAIN args.destinations :
       ret.swapped.OD[j][i] = ret.od.OD[i][j]

\* C3 as stated: on a network in which every node reaches every other node,
\* calculate_OD(G, A, B) and calculate_OD(G, B, A) are exact transposes for
\* all node lists A and B, equal lengths and asymmetric weights included.
C3_SwappedIsTransposeAlways ==
  (pc = "od_swapped" /\ FullyConnected) => ExactTransposes

SymmetricCosts ==
  \A i \in DOMAIN args.origins, j \in DOMAIN args.destinations :
    Cost(args.origins[i], args.destinations[j]) = Cost(args.destinations[j], args.origins[i])

\* C3 as amended: on such a network the two matrices are exact transposes
\* when A and B differ in length, or when every pair (A[i], B[j]) costs the
\* same in both directions.
C3_SwappedIsTransposeWhenLengthsDifferOrCostsSymmetric ==
  (pc = "od_swapped" /\ FullyConnected
     /\ (Len(args.origins) # Len(args.destinations) \/ SymmetricCosts))
    => ExactTransposes

\* Lists of different lengths on a fully connected network some pair of which
\* costs more one way than the other, both matrices computed.
C3_Witness ==
  /\ pc = "od_swapped"
  /\ FullyConnected
  /\ Len(args.origins) # Len(args.destinations)
  /\ ~SymmetricCosts
  /\ ret.swapped.raised = "none"

(***************************************************************************)
(* SpecIso: generate_isochrones, called twice on the same network with     *)
(* growing thresholds (the function writes its marks into the caller's     *)
(* network and returns it).                                                *)
(***************************************************************************)
MaxThresh == 2

\* An ego graph that keeps the nodes at exactly the radius only.
ego_graph_at_radius_only(net, n, radius, distance) ==
  LET sp == single_source_dijkstra_path_length(net, n, radius, distance)
  IN  {v \in DOMAIN sp : v = n \/ sp[v] = radius}

\* nx.ego_graph(G, n, radius, distance = weight): the nodes of the subgraph,
\* those the search from n reaches at a cost of at most radius.
ego_graph(net, n, radius, distance) ==
  DOMAIN single_source_dijkstra_path_length(net, n, radius, distance)

\* collections.Counter(reachable_nodes)[u]
Counter(reachable, u) == Cardinality({i \in DOMAIN reachable : u \in reachable[i]})

\* generate_isochrones(G, origins, thresh, weight, stacking); weight = "None"
\* is the default.  The result is [raised, G]: the exception that ended the
\* call ("none" when it returned) and the network as the call leaves it.
generate_isochrones(net, origins, thresh, weight, stacking) ==
  IF ~(Len(origins) >= 1)
  THEN [raised |-> "ValueError", G |-> net]
  ELSE
  LET ddict == net.data[Min(net.nodes)]
  IN  IF weight = "None" /\ "time" \notin ddict.keys
      THEN [raised |-> "ValueError", G |-> net]
      ELSE
      LET w == IF weight = "None" THEN "time" ELSE weight
          reachable_nodes == [i \in DOMAIN origins |-> ego_graph(net, origins[i], thresh, w)]
          mark(u) ==
            IF ~stacking
            THEN IF u \in UNION Range(reachable_nodes) THEN 1 ELSE 0
            ELSE IF Counter(reachable_nodes, u) > 0 THEN Counter(reachable_nodes, u) ELSE 0
      IN  [raised |-> "none",
           G |-> [net EXCEPT !.data =
                    [u \in net.nodes |->
                       [net.data[u] EXCEPT !.marks = (thresh :> mark(u)) @@ @]]]]

IsoEdges(n) ==
  {[u |-> a, v |-> b, time |-> t] : a \in 1..n, b \in 1..n, t \in 0..(MaxTime - 1)}

\* Networks with a non-negative time on every edge; the nodes carry either
\* their coordinates only or a "time" attribute as well.
InitIso ==
  /\ pc = "start"
  /\ \E n \in 1..NumNodes, k \in 0..MaxEdges :
       \E es \in [1..k -> {e \in IsoEdges(n) : e.u # e.v}],
          keys \in {{"x", "y"}, {"x", "y", "time"}} :
         /\ Ascending(es)
         /\ G = [nodes |-> 1..n, edges |-> es,
                 data |-> [u \in 1..n |-> [keys |-> keys, marks |-> <<>>]]]
  /\ args \in [origins : NonEmptySeqsUpTo(G.nodes, MaxList),
               weight : {"None", "time"},
               stacking : BOOLEAN]
  /\ ret = <<>>

\* G = generate_isochrones(G, origins, thresh, weight, stacking)
GenerateIsochrones(next, least) ==
  \E thresh \in least..MaxThresh :
    LET r == generate_isochrones(G, args.origins, thresh, args.weight, args.stacking)
    IN  /\ G' = r.G
        /\ ret' = Append(ret, [thresh |-> thresh, raised |-> r.raised])
        /\ pc' = next
        /\ UNCHANGED args

FirstIsochrones == pc = "start" /\ GenerateIsochrones("iso1", 0)

\* and once more, with a larger threshold
SecondIsochrones == pc = "iso1" /\ GenerateIsochrones("iso2", ret[1].thresh + 1)

NextIso == FirstIsochrones \/ SecondIsochrones

SpecIso == InitIso /\ [][NextIso]_vars

\* The nodes that carry the value 1 under the attribute keyed by t.
Flagged(t) ==
  {u \in G.nodes : t \in DOMAIN G.data[u].marks /\ G.data[u].marks[t] = 1}

\* The least cost of a path from a to b on the time attribute is at most t.
Within(a, b, t) ==
  LET d == single_source_dijkstra_path_length(G, a, -1, "time")
  IN  b \in DOMAIN d /\ d[b] <= t

\* C4: for a single origin and thresholds t1 < t2 on a network with
\* non-negative edge weights, the nodes flagged 1 by generate_isochrones at
\* t1 are a subset of the nodes flagged 1 at t2.
C4_ReachableSetGrowsWithThreshold ==
  (pc = "iso2" /\ Len(args.origins) = 1) =>
    \A i, j \in DOMAIN ret :
      ret[i].thresh < ret[j].thresh => Flagged(ret[i].thresh) \subseteq Flagged(ret[j].thresh)

\* Two calls that returned, the larger threshold flagging more nodes than the
\* smaller and still leaving a node out.
C4_Witness ==
  /\ pc = "iso2"
  /\ Len(args.origins) = 1
  /\ ret[1].raised = "none" /\ ret[2].raised = "none"
  /\ ret[1].thresh < ret[2].thresh
  /\ Flagged(ret[1].thresh) # {}
  /\ Flagged(ret[1].thresh) # Flagged(ret[2].thresh)
  /\ Flagged(ret[2].thresh) # G.nodes

\* C5: after generate_isochrones(G, origins, thresh) every node of G carries
\* an attribute keyed by thresh: without stacking 1 if the node is within
\* cost thresh of at least one origin and 0 otherwise, with stacking the
\* number of origins from which the node is within cost thresh.
C5_EveryNodeMarkedAfterCall ==
  pc \in {"iso1", "iso2"} =>
    LET thresh == ret[Len(ret)].thresh
        from(u) == {i \in DOMAIN args.origins : Within(args.origins[i], u, thresh)}
    IN  \A u \in G.nodes :
          /\ thresh \in DOMAIN G.data[u].marks
          /\ G.data[u].marks[thresh] =
               IF args.stacking THEN Cardinality(from(u))
               ELSE IF from(u) # {} THEN 1 ELSE 0

(***************************************************************************)
(* networkx MultiDiGraph operations on the edge sequence of a network.     *)
(***************************************************************************)
RemoveAt(s, k) == SubSeq(s, 1, k - 1) \o SubSeq(s, k + 1, Len(s))

RECURSIVE SortIdx(_, _)
SortIdx(S, rank) ==
  IF S = {} THEN <<>>
  ELSE LET m == CHOOSE k \in S : \A j \in S : rank[k] <= rank[j]
       IN  <<m>> \o SortIdx(S \ {m}, rank)

\* The edges between u and v, as indices into the edge sequence, and their
\* number: G.number_of_edges(u, v).
EdgesBetween(edges, u, v) == {k \in DOMAIN edges : edges[k].u = u /\ edges[k].v = v}

number_of_edges(edges, u, v) == Cardinality(EdgesBetween(edges, u, v))

\* G.edges(data = True): the edges in the order networkx yields them, by
\* source node, then by target in the order the targets were first joined to
\* the source, then by key (nodes were added in ascending order).
edges_iter(edges) ==
  LET L == Len(edges)
      first(k) == Min(EdgesBetween(edges, edges[k].u, edges[k].v))
      rank == [k \in DOMAIN edges |-> (edges[k].u * (L + 1) + first(k)) * (L + 1) + k]
  IN  SortIdx(DOMAIN edges, rank)

\* G.remove_edge(u, v) with no key: the edge between u and v that was added
\* last goes; the edges are left as they are when there is none (networkx
\* raises NetworkXError then).
remove_edge(edges, u, v) ==
  IF EdgesBetween(edges, u, v) = {} THEN edges
  ELSE RemoveAt(edges, Max(EdgesBetween(edges, u, v)))

RECURSIVE remove_edges_in_turn(_, _, _)
remove_edges_in_turn(edges, pairs, i) ==
  IF i > Len(pairs) THEN edges
  ELSE remove_edges_in_turn(remove_edge(edges, pairs[i][1], pairs[i][2]), pairs, i + 1)

(***************************************************************************)
(* Topology cleanup: remove_duplicate_edges.                               *)
(***************************************************************************)
\* max(lengths) / min(lengths) >= max_ratio, max_ratio held as a fraction.
RatioAtLeast(lengths, max_ratio) ==
  Max(lengths) * max_ratio[2] >= Min(lengths) * max_ratio[1]

\* The first loop of remove_duplicate_edges from the i-th edge on: the list
\* deletes it builds (uniques is the list of reversed pairs seen so far).
RECURSIVE dup_scan(_, _, _, _, _, _)
dup_scan(edges, order, i, uniques, deletes, max_ratio) ==
  IF i > Len(order) THEN deletes
  ELSE LET u == edges[order[i]].u
           v == edges[order[i]].v
           lengths == {edges[k].length : k \in EdgesBetween(edges, u, v)}
       IN  IF <<u, v>> \notin uniques
           THEN dup_scan(edges, order, i + 1, uniques \cup {<<v, u>>},
                         IF RatioAtLeast(lengths, max_ratio) THEN deletes
                         ELSE Append(deletes, <<u, v>>),
                         max_ratio)
           ELSE dup_scan(edges, order, i + 1, uniques, deletes, max_ratio)

\* remove_duplicate_edges(G, max_ratio): the network returned.
remove_duplicate_edges(net, max_ratio) ==
  LET deletes == dup_scan(net.edges, edges_iter(net.edges), 1, {}, <<>>, max_ratio)
  IN  [net EXCEPT !.edges = remove_edges_in_turn(net.edges, deletes, 1)]

(***************************************************************************)
(* SpecDup: remove_duplicate_edges on a network with a length on every     *)
(* edge.                                                                   *)
(***************************************************************************)
NumDupNodes == 2

MaxDupEdges == 3

Lengths == {100, 140, 150, 160}

\* max_ratio = 1.5
DefaultMaxRatio == <<3, 2>>

LengthEdges(n) ==
  {[u |-> a, v |-> b, length |-> l] : a \in 1..n, b \in 1..n, l \in Lengths}

InitDup ==
  /\ pc = "start"
  /\ \E n \in 1..NumDupNodes, k \in 0..MaxDupEdges :
       \E es \in [1..k -> LengthEdges(n)] : G = [nodes |-> 1..n, edges |-> es]
  /\ args = [max_ratio |-> DefaultMaxRatio]
  /\ ret = [nodes |-> {}, edges |-> <<>>]

\* G2 = remove_duplicate_edges(G, 1.5)
RemoveDuplicateEdges ==
  /\ pc = "start"
  /\ ret' = remove_duplicate_edges(G, args.max_ratio)
  /\ pc' = "deduplicated"
  /\ UNCHANGED <<G, args>>

NextDup == RemoveDuplicateEdges

SpecDup == InitDup /\ [][NextDup]_vars

\* The lengths of the parallel edges from u to v in net, in key order.
ParallelLengths(net, u, v) ==
  LET ks == SortIdx(EdgesBetween(net.edges, u, v), [k \in DOMAIN net.edges |-> k])
  IN  [i \in DOMAIN ks |-> net.edges[ks[i]].length]

\* C6: remove_duplicate_edges with max ratio 1.5: a node pair joined by
\* parallel edges whose longest/shortest length ratio is below 1.5 (100 and
\* 140) ends with exactly one edge for that pair; a pair whose ratio is at or
\* above 1.5 (100 and 160) keeps all its parallel edges.
C6_CloseParallelEdgesCollapseToOne ==
  pc = "deduplicated" =>
    \A u, v \in G.nodes :
      number_of_edges(G.edges, u, v) > 1 =>
        IF RatioAtLeast(Range(ParallelLengths(G, u, v)), args.max_ratio)
        THEN ParallelLengths(ret, u, v) = ParallelLengths(G, u, v)
        ELSE number_of_edges(ret.edges, u, v) = 1

(***************************************************************************)
(* Network simplification: custom_simplify.                                *)
(***************************************************************************)
\* The distinct values of f over the indices ks, in ascending index order.
RECURSIVE FirstSeen(_, _, _)
FirstSeen(edges, ks, end) ==
  IF ks = {} THEN <<>>
  ELSE LET k == Min(ks)
       IN  <<edges[k][end]>> \o
           FirstSeen(edges, {j \in ks : edges[j][end] # edges[k][end]}, end)

\* G.successors(node), G.predecessors(node): the neighbours in the order they
\* were first joined to node.
successors(net, node) ==
  FirstSeen(net.edges, {k \in DOMAIN net.edges : net.edges[k].u = node}, "v")

predecessors(net, node) ==
  FirstSeen(net.edges, {k \in DOMAIN net.edges : net.edges[k].v = node}, "u")

\* G.degree(node): in-degree plus out-degree, a self-loop counting twice.
degree(net, node) ==
  Cardinality({k \in DOMAIN net.edges : net.edges[k].u = node})
    + Cardinality({k \in DOMAIN net.edges : net.edges[k].v = node})

\* is_endpoint(G, node, strict), as the truth value of what it returns.
is_endpoint(net, node, strict) ==
  LET neighbors == Range(predecessors(net, node)) \cup Range(successors(net, node))
      n == Cardinality(neighbors)
      d == degree(net, node)
      osmids == {net.edges[k].osmid :
                   k \in {j \in DOMAIN net.edges :
                            net.edges[j].u = node \/ net.edges[j].v = node}}
  IN  IF node \in neighbors THEN TRUE
      ELSE IF ~(n = 2 /\ (d = 2 \/ d = 4)) THEN TRUE
      ELSE IF ~strict THEN Cardinality(osmids) > 1
      ELSE FALSE

\* build_path(G, node, endpoints, path): build_path_from is the loop over the
\* successors of node from the i-th on, then the closing of a self loop.
RECURSIVE build_path(_, _, _, _)
RECURSIVE build_path_from(_, _, _, _, _)
build_path_from(net, node, endpoints, path, i) ==
  LET succ == successors(net, node)
  IN  IF i > Len(succ)
      THEN IF /\ path[Len(path)] \notin endpoints
              /\ path[1] \in Range(successors(net, path[Len(path)]))
           THEN Append(path, path[1])
           ELSE path
      ELSE IF succ[i] \notin Range(path)
           THEN IF succ[i] \notin endpoints
                THEN build_path_from(net, node, endpoints,
                                     build_path(net, succ[i], endpoints, Append(path, succ[i])),
                                     i + 1)
                ELSE Append(path, succ[i])
           ELSE build_path_from(net, node, endpoints, path, i + 1)

build_path(net, node, endpoints, path) == build_path_from(net, node, endpoints, path, 1)

\* get_paths_to_simplify(G, strict): one path per endpoint and successor of
\* it that is not an endpoint (endpoints taken in ascending order).
get_paths_to_simplify(net, strict) ==
  LET endpoints == {node \in net.nodes : is_endpoint(net, node, strict)}
      starts == SortIdx(endpoints, [node \in endpoints |-> node])
      from(node) ==
        LET succ == successors(net, node)
            inner == SortIdx({i \in DOMAIN succ : succ[i] \notin endpoints},
                             [i \in DOMAIN succ |-> i])
        IN  [j \in DOMAIN inner |->
               build_path(net, succ[inner[j]], endpoints, <<node, succ[inner[j]]>>)]
      RECURSIVE all(_)
      all(i) == IF i > Len(starts) THEN <<>> ELSE from(starts[i]) \o all(i + 1)
  IN  all(1)

RECURSIVE SumSeq(_)
SumSeq(s) == IF s = <<>> THEN 0 ELSE s[1] + SumSeq(Tail(s))

\* The edge custom_simplify builds for one path: the attributes of the edges
\* of key 0 along the path, the lengths summed, the first value kept for any
\* other attribute, the geometry running through the nodes of the path.
edge_for_path(net, path) ==
  LET hop(i) == net.edges[Min(EdgesBetween(net.edges, path[i], path[i + 1]))]
  IN  [u |-> path[1],
       v |-> path[Len(path)],
       length |-> SumSeq([i \in 1..(Len(path) - 1) |-> hop(i).length]),
       osmid |-> hop(1).osmid,
       geometry |-> path]

\* G.remove_nodes_from(nodes): the nodes go, and every edge at one of them.
remove_nodes_from(net, nodes) ==
  LET keep == SortIdx({k \in DOMAIN net.edges :
                         net.edges[k].u \notin nodes /\ net.edges[k].v \notin nodes},
                      [k \in DOMAIN net.edges |-> k])
  IN  [net EXCEPT !.nodes = @ \ nodes,
                  !.edges = [i \in DOMAIN keep |-> net.edges[keep[i]]]]

\* custom_simplify(G, strict): the network returned, and the paths it built.
custom_simplify(net, strict) ==
  LET paths == get_paths_to_simplify(net, strict)
      all_edges_to_add == [i \in DOMAIN paths |-> edge_for_path(net, paths[i])]
      all_nodes_to_remove ==
        UNION {{paths[i][j] : j \in 2..(Len(paths[i]) - 1)} : i \in DOMAIN paths}
      added == [net EXCEPT !.edges = @ \o all_edges_to_add]
      out == remove_nodes_from(added, all_nodes_to_remove)
  IN  [nodes |-> out.nodes, edges |-> out.edges, paths |-> paths]

(***************************************************************************)
(* SpecSimplify: custom_simplify on a network whose edges carry a length   *)
(* and the identifier of their source way.                                 *)
(***************************************************************************)
MaxSimplifyEdges == 4

MaxLength == 2

\* The edges of way 1 have length 1, those of way 2 length 2, and so on.
WayEdges(n) ==
  {[u |-> a, v |-> b, length |-> l, osmid |-> l] :
     a \in 1..n, b \in 1..n, l \in 1..MaxLength}

InitSimplify ==
  /\ pc = "start"
  /\ \E n \in 1..NumNodes, k \in 0..MaxSimplifyEdges :
       \E es \in [1..k -> WayEdges(n)] : G = [nodes |-> 1..n, edges |-> es]
  /\ args \in [strict : BOOLEAN]
  /\ ret = [nodes |-> {}, edges |-> <<>>, paths |-> <<>>]

\* G2 = custom_simplify(G, strict)
CustomSimplify ==
  /\ pc = "start"
  /\ ret' = custom_simplify(G, args.strict)
  /\ pc' = "simplified"
  /\ UNCHANGED <<G, args>>

NextSimplify == CustomSimplify

SpecSimplify == InitSimplify /\ [][NextSimplify]_vars

TotalLength(edges) == SumSeq([k \in DOMAIN edges |-> edges[k].length])

\* C7: for every input network, the sum of the length attribute over all
\* edges of the network returned by custom_simplify equals the sum over all
\* edges of the input network.
C7_SimplifyPreservesTotalLength ==
  pc = "simplified" => TotalLength(ret.edges) = TotalLength(G.edges)

(***************************************************************************)
(* Clipping: clip and new_edge_generator.                                  *)
(*                                                                         *)
(* Geometry is held along one axis: a point is its coordinate x, a line    *)
(* geometry the pair <<first coordinate, last coordinate>> of a straight   *)
(* line, and the boundary a sequence of disjoint closed intervals          *)
(* <<lo, hi>> in ascending order (one interval for a Polygon, more for a   *)
(* MultiPolygon).  One unit of x is 1000 m in the projected CRS.  The node *)
(* 'new_node_<k>' is held as the identifier -(k + 1).                      *)
(***************************************************************************)
\* bound.contains(Point): the point is in the interior of the boundary.
ContainsPoint(bound, p) == \E i \in DOMAIN bound : bound[i][1] < p /\ p < bound[i][2]

\* bound.contains(LineString): no part of the line is outside the boundary.
ContainsLine(bound, g) ==
  \E i \in DOMAIN bound :
    bound[i][1] <= Min({g[1], g[2]}) /\ Max({g[1], g[2]}) <= bound[i][2]

\* bound.intersects(LineString): the line and the boundary share a point.
Intersects(bound, g) ==
  \E i \in DOMAIN bound :
    bound[i][1] <= Max({g[1], g[2]}) /\ Min({g[1], g[2]}) <= bound[i][2]

\* An intersection that was left out: the geometry as it is.
Intersection_left_out(bound, g) == <<g>>

\* bound.intersection(LineString): the parts of the line within the
\* boundary, in the direction of the line; a part <<p, p>> is a Point.
Intersection(bound, g) ==
  LET lo == Min({g[1], g[2]})
      hi == Max({g[1], g[2]})
      hit == {i \in DOMAIN bound : bound[i][1] <= hi /\ lo <= bound[i][2]}
      along == SortIdx(hit, [i \in DOMAIN bound |-> IF g[1] <= g[2] THEN i ELSE 0 - i])
      part(i) == LET a == Max({lo, bound[i][1]})
                     b == Min({hi, bound[i][2]})
                 IN  IF g[1] <= g[2] THEN <<a, b>> ELSE <<b, a>>
  IN  [j \in DOMAIN along |-> part(along[j])]

\* The key of the first entry of the point registry that holds the point.
RegistryKey(registry, point) ==
  registry[Min({i \in DOMAIN registry : registry[i][2] = point})][1]

InRegistry(registry, point) == \E i \in DOMAIN registry : registry[i][2] = point

\* new_edge_generator(passed_geom, infra_type, iterator,
\* existing_legitimate_point_geometries, ...): the nodes and edges to add, the
\* new registry entries and the iterator.
new_edge_generator(passed_geom, infra_type, iterator, registry) ==
  LET u_geom == passed_geom[1]
      v_geom == passed_geom[2]
      u_new == ~InRegistry(registry, u_geom)
      v_new == ~InRegistry(registry, v_geom)
      u == IF u_new THEN 0 - (iterator + 1) ELSE RegistryKey(registry, u_geom)
      iterator2 == IF u_new THEN iterator + 1 ELSE iterator
      v == IF v_new THEN 0 - (iterator2 + 1) ELSE RegistryKey(registry, v_geom)
      iterator3 == IF v_new THEN iterator2 + 1 ELSE iterator2
      nodes_to_add ==
        (IF u_new THEN <<[id |-> u, x |-> u_geom, has_xy |-> TRUE]>> ELSE <<>>)
          \o (IF v_new THEN <<[id |-> v, x |-> v_geom, has_xy |-> TRUE]>> ELSE <<>>)
      edge_data(a, b) ==
        [u |-> a, v |-> b, geometry |-> passed_geom,
         length |-> Max({u_geom - v_geom, v_geom - u_geom}),
         infra_type |-> infra_type]
  IN  [nodes_to_add |-> nodes_to_add,
       edges_to_add |-> <<edge_data(u, v), edge_data(v, u)>>,
       new_node_dict_entries |->
         [i \in DOMAIN nodes_to_add |-> <<nodes_to_add[i].id, nodes_to_add[i].x>>],
       iterator |-> iterator3]

\* One call of new_edge_generator per part of the intersection, from the
\* j-th part on, folded into the lists of clip.
RECURSIVE clip_parts(_, _, _, _)
clip_parts(parts, j, infra_type, st) ==
  IF j > Len(parts) THEN st
  ELSE LET r == new_edge_generator(parts[j], infra_type, st.iterator, st.registry)
       IN  clip_parts(parts, j + 1, infra_type,
                      [st EXCEPT !.registry = @ \o r.new_node_dict_entries,
                                 !.nodes_to_add = @ \o r.nodes_to_add,
                                 !.edges_to_add = @ \o r.edges_to_add,
                                 !.iterator = r.iterator])

\* The loop of clip over the edges, from the i-th edge on.
RECURSIVE clip_scan(_, _, _, _, _)
clip_scan(net, bound, order, i, st) ==
  IF i > Len(order) THEN st
  ELSE
  LET e == net.edges[order[i]]
      done == st.done_edges \cup {<<e.v, e.u>>}
      st1 == [st EXCEPT !.done_edges = done]
      parts == Intersection(bound, e.geometry)
      is_line(j) == parts[j][1] # parts[j][2]
      both == <<<<e.u, e.v>>, <<e.v, e.u>>>>
  IN  IF <<e.u, e.v>> \in done
      THEN clip_scan(net, bound, order, i + 1, st1)
      ELSE IF ContainsLine(bound, e.geometry)
      THEN clip_scan(net, bound, order, i + 1, st1)
      ELSE IF ~Intersects(bound, e.geometry)
      THEN clip_scan(net, bound, order, i + 1,
                     [st1 EXCEPT !.edges_to_remove = @ \o both,
                                 !.nodes_to_remove = @ \cup {e.u, e.v}])
      ELSE LET st2 == [st1 EXCEPT !.edges_to_remove = @ \o both]
           IN  IF \A j \in DOMAIN parts : is_line(j)
               THEN clip_scan(net, bound, order, i + 1,
                              clip_parts(parts, 1, e.infra_type, st2))
               ELSE clip_scan(net, bound, order, i + 1, st2)

NodeIds(nodes) == {nodes[i].id : i \in DOMAIN nodes}

\* G.add_edges_from(edges): the edges are appended, and an endpoint that is
\* not a node yet becomes one, with no attributes.
RECURSIVE add_edges_from(_, _, _)
add_edges_from(net, edges, i) ==
  IF i > Len(edges) THEN net
  ELSE LET bare(n) == [id |-> n, x |-> 0, has_xy |-> FALSE]
           n1 == IF edges[i].u \in NodeIds(net.nodes) THEN net.nodes
                 ELSE Append(net.nodes, bare(edges[i].u))
           n2 == IF edges[i].v \in NodeIds(n1) THEN n1 ELSE Append(n1, bare(edges[i].v))
       IN  add_edges_from([nodes |-> n2, edges |-> Append(net.edges, edges[i])], edges, i + 1)

SelectSeq2(s, keep) ==
  LET ks == SortIdx({k \in DOMAIN s : keep[k]}, [k \in DOMAIN s |-> k])
  IN  [i \in DOMAIN ks |-> s[ks[i]]]

\* nx.convert_node_labels_to_integers(G): the nodes are numbered from 0 in
\* the order the network holds them.
convert_node_labels_to_integers(net) ==
  LET label(n) == (CHOOSE i \in DOMAIN net.nodes : net.nodes[i].id = n) - 1
  IN  [nodes |-> [i \in DOMAIN net.nodes |-> [net.nodes[i] EXCEPT !.id = i - 1]],
       edges |-> [k \in DOMAIN net.edges |->
                    [net.edges[k] EXCEPT !.u = label(@), !.v = label(@)]]]

\* clip(G, bound, ...) up to the relabelling of the nodes.
clip_rebuilt(net, bound) ==
  LET outside == {i \in DOMAIN net.nodes : ~ContainsPoint(bound, net.nodes[i].x)}
      inside == SelectSeq2(net.nodes, [i \in DOMAIN net.nodes |-> i \notin outside])
      st == clip_scan(net, bound, edges_iter(net.edges), 1,
                      [done_edges |-> {},
                       edges_to_remove |-> <<>>,
                       nodes_to_remove |-> {net.nodes[i].id : i \in outside},
                       nodes_to_add |-> <<>>,
                       edges_to_add |-> <<>>,
                       registry |-> [i \in DOMAIN inside |-> <<inside[i].id, inside[i].x>>],
                       iterator |-> 0])
      kept_nodes == SelectSeq2(net.nodes,
                               [i \in DOMAIN net.nodes |-> net.nodes[i].id \notin st.nodes_to_remove])
      kept_edges == SelectSeq2(net.edges,
                               [k \in DOMAIN net.edges |->
                                  /\ net.edges[k].u \notin st.nodes_to_remove
                                  /\ net.edges[k].v \notin st.nodes_to_remove])
      removed == remove_edges_in_turn(kept_edges, st.edges_to_remove, 1)
      added == add_edges_from([nodes |-> kept_nodes \o st.nodes_to_add, edges |-> removed],
                              st.edges_to_add, 1)
  IN  convert_node_labels_to_integers(added)

\* The nodes reached from the nodes of S along the edges.
RECURSIVE Reached(_, _)
Reached(edges, S) ==
  LET S2 == S \cup {edges[k].v : k \in {j \in DOMAIN edges : edges[j].u \in S}}
  IN  IF S2 = S THEN S ELSE Reached(edges, S2)

\* nx.strongly_connected_component_subgraphs(G): the node sets.
strongly_connected_components(net) ==
  {{b \in NodeIds(net.nodes) : b \in Reached(net.edges, {a}) /\ a \in Reached(net.edges, {b})} :
     a \in NodeIds(net.nodes)}

subgraph(net, comp) ==
  [nodes |-> SelectSeq2(net.nodes, [i \in DOMAIN net.nodes |-> net.nodes[i].id \in comp]),
   edges |-> SelectSeq2(net.edges, [k \in DOMAIN net.edges |->
                                      net.edges[k].u \in comp /\ net.edges[k].v \in comp])]

(***************************************************************************)
(* SpecClip: clip on a network whose nodes lie along the axis, numbered in *)
(* the direction of the axis, each edge running straight from its first    *)
(* node to its second.                                                     *)
(***************************************************************************)
MaxX == 4

MaxClipEdges == 2

\* A Polygon, or a MultiPolygon of two parts.
Boundaries ==
  {<<<<a, b>>>> : a, b \in 0..MaxX} \cup
  {<<<<a, b>>, <<c, d>>>> : a, b, c, d \in 0..MaxX}

WellFormedBoundary(bound) ==
  /\ \A i \in DOMAIN bound : bound[i][1] < bound[i][2]
  /\ \A i \in DOMAIN bound : i > 1 => bound[i - 1][2] < bound[i][1]

InitClip ==
  /\ pc = "start"
  /\ \E n \in 1..NumNodes, k \in 0..MaxClipEdges :
       \E x \in [1..n -> 0..MaxX], uv \in [1..k -> (1..n) \X (1..n)] :
         /\ \A i \in 1..(n - 1) : x[i] <= x[i + 1]
         /\ \A j \in 1..k : uv[j][1] # uv[j][2] => x[uv[j][1]] # x[uv[j][2]]
         /\ G = [nodes |-> [i \in 1..n |-> [id |-> i, x |-> x[i], has_xy |-> TRUE]],
                 edges |-> [j \in 1..k |->
                              [u |-> uv[j][1], v |-> uv[j][2],
                               geometry |-> <<x[uv[j][1]], x[uv[j][2]]>>,
                               infra_type |-> "road"]]]
  /\ \E bound \in Boundaries, largest_G \in BOOLEAN :
       /\ WellFormedBoundary(bound)
       /\ args = [bound |-> bound, largest_G |-> largest_G]
  /\ ret = [raised |-> "not called", nodes |-> <<>>, edges |-> <<>>]

\* G2 = clip(G, bound, largest_G = ...): with largest_G, one of the strongly
\* connected components with the most nodes is returned (the first of them
\* in the order networkx lists the components), and max() of an empty list
\* raises ValueError when no node is left.
Clip ==
  /\ pc = "start"
  /\ LET g == clip_rebuilt(G, args.bound)
         comps == strongly_connected_components(g)
     IN  IF ~args.largest_G
         THEN ret' = [raised |-> "none", nodes |-> g.nodes, edges |-> g.edges]
         ELSE IF comps = {}
         THEN ret' = [raised |-> "ValueError", nodes |-> <<>>, edges |-> <<>>]
         ELSE \E c \in comps :
                /\ \A c2 \in comps : Cardinality(c2) <= Cardinality(c)
                /\ ret' = [raised |-> "none",
                           nodes |-> subgraph(g, c).nodes,
                           edges |-> subgraph(g, c).edges]
  /\ pc' = "clipped"
  /\ UNCHANGED <<G, args>>

NextClip == Clip

SpecClip == InitClip /\ [][NextClip]_vars

\* The point is within the boundary or on its edge.
CoversPoint(bound, p) == \E i \in DOMAIN bound : bound[i][1] <= p /\ p <= bound[i][2]

EdgeEndsAreNodes ==
  \A k \in DOMAIN ret.edges :
    ret.edges[k].u \in NodeIds(ret.nodes) /\ ret.edges[k].v \in NodeIds(ret.nodes)

cut(line, distance) ==
  IF distance <= 0 \/ distance >= line THEN <<line>> ELSE <<distance, line - distance>>

\* The first loop of salt_long_lines from the i-th edge on: long_edges and
\* unique_long_edges, as indices of edges.
RECURSIVE salt_identify(_, _, _, _, _)
salt_identify(edges, order, i, thresh, st) ==
  IF i > Len(order) THEN st
  ELSE LET e == edges[order[i]]
           ids == st.long_edge_IDs \cup {<<e.u, e.v>>}
       IN  IF e.length > thresh
           THEN salt_identify(edges, order, i + 1, thresh,
                  [long_edges |-> Append(st.long_edges, order[i]),
                   long_edge_IDs |-> ids,
                   unique_long_edges |->
                     IF <<e.v, e.u>> \in ids THEN st.unique_long_edges
                     ELSE Append(st.unique_long_edges, order[i])])
           ELSE salt_identify(edges, order, i + 1, thresh, st)

\* The loop "for i in range(0, int(number_of_new_points + 1))" for one long
\* edge from u to v of projected length len, from i on.  st holds result,
\* prev_node_ID, o and the lists new_nodes and new_edges.
RECURSIVE salt_split(_, _, _, _, _, _, _)
salt_split(u, v, len, thresh, j, i, st) ==
  LET number_of_new_points == len \div thresh
      new_node_ID == <<u, i + j, st.o>>
      nodes2 == IF i < number_of_new_points
                THEN Append(st.new_nodes, [id |-> new_node_ID, at |-> thresh * (i + 1)])
                ELSE st.new_nodes
      raises == i # 0 /\ Len(st.result) < 2
      geom_to_split == IF i = 0 THEN len ELSE st.result[2]
      result == cut(geom_to_split, thresh)
      prev == IF i = 0 THEN <<u>> ELSE st.prev_node_ID
      id2 == IF i = number_of_new_points THEN <<v>> ELSE new_node_ID
      edge_data(a, b) == [u |-> a, v |-> b, length |-> result[1]]
  IN  IF i > number_of_new_points THEN st
      ELSE IF raises
      THEN salt_split(u, v, len, thresh, j, i + 1, [st EXCEPT !.new_nodes = nodes2])
      ELSE salt_split(u, v, len, thresh, j, i + 1,
                      [result |-> result,
                       prev_node_ID |-> id2,
                       o |-> st.o + 1,
                       new_nodes |-> nodes2,
                       new_edges |-> st.new_edges \o <<edge_data(prev, id2), edge_data(id2, prev)>>])

\* The second loop of salt_long_lines from the n-th unique long edge on.
RECURSIVE salt_unique(_, _, _, _, _)
salt_unique(edges, unique, n, thresh, st) ==
  IF n > Len(unique) THEN st
  ELSE LET e == edges[unique[n]]
           flipped == e.starts = "v"
           u == IF flipped THEN e.v ELSE e.u
           v == IF flipped THEN e.u ELSE e.v
       IN  salt_unique(edges, unique, n + 1, thresh,
                       salt_split(u, v, e.length, thresh, n, 0, st))

\* salt_long_lines(G, source, target, thresh, factor = 1): the network
\* returned.
salt_long_lines(net, thresh) ==
  LET found == salt_identify(net.edges, edges_iter(net.edges), 1, thresh,
                             [long_edges |-> <<>>, long_edge_IDs |-> {},
                              unique_long_edges |-> <<>>])
      made == salt_unique(net.edges, found.unique_long_edges, 1, thresh,
                          [result |-> <<>>, prev_node_ID |-> <<>>, o |-> 0,
                           new_nodes |-> <<>>, new_edges |-> <<>>])
      old == [k \in DOMAIN net.edges |->
                [u |-> <<net.edges[k].u>>, v |-> <<net.edges[k].v>>,
                 length |-> net.edges[k].length]]
      pairs == [k \in DOMAIN found.long_edges |->
                  <<<<net.edges[found.long_edges[k]].u>>, <<net.edges[found.long_edges[k]].v>>>>]
  IN  [nodes |-> {<<n>> : n \in net.nodes} \cup {made.new_nodes[k].id : k \in DOMAIN made.new_nodes},
       edges |-> remove_edges_in_turn(old \o made.new_edges, pairs, 1)]

(***************************************************************************)
(* SpecSalt: salt_long_lines on a network whose edges carry a geometry.    *)
(***************************************************************************)
NumSaltNodes == 2

MaxSaltEdges == 2

MaxSaltLength == 5

MaxSaltThresh == 2

InitSalt ==
  /\ pc = "start"
  /\ \E n \in 1..NumSaltNodes, k \in 0..MaxSaltEdges :
       \E es \in [1..k -> [u : 1..n, v : 1..n, length : 1..MaxSaltLength,
                           starts : {"u", "v", "neither"}]] :
         G = [nodes |-> 1..n, edges |-> es]
  /\ args \in [thresh : 1..MaxSaltThresh]
  /\ ret = [nodes |-> {}, edges |-> <<>>]

\* G2 = salt_long_lines(G, source, target, thresh)
SaltLongLines ==
  /\ pc = "start"
  /\ ret' = salt_long_lines(G, args.thresh)
  /\ pc' = "salted"
  /\ UNCHANGED <<G, args>>

NextSalt == SaltLongLines

SpecSalt == InitSalt /\ [][NextSalt]_vars

\* C9: after salt_long_lines with threshold T no edge of the returned
\* network has a projected geometry length greater than T: every edge longer
\* than T has been removed, and every segment created is at most T long.
C9_NoEdgeLongerThanThreshold ==
  pc = "salted" => \A k \in DOMAIN ret.edges : ret.edges[k].length <= args.thresh

\* The edges of the returned network that touch a synthetic node.
SegmentEdges ==
  SelectSeq2(ret.edges, [k \in DOMAIN ret.edges |->
                           Len(ret.edges[k].u) = 3 \/ Len(ret.edges[k].v) = 3])

\* C10: for every long edge (u, v) replaced by salt_long_lines the new
\* segments form a chain from u through the new synthetic nodes to v, with an
\* edge in both directions for each segment, so that u and v stay mutually
\* reachable, whatever the length of the edge (exact multiples of the
\* threshold included).
C10_SegmentsChainFromUToV ==
  pc = "salted" =>
    \A k \in DOMAIN G.edges :
      (G.edges[k].length > args.thresh /\ G.edges[k].u # G.edges[k].v) =>
        /\ <<G.edges[k].v>> \in Reached(SegmentEdges, {<<G.edges[k].u>>})
        /\ <<G.edges[k].u>> \in Reached(SegmentEdges, {<<G.edges[k].v>>})

(***************************************************************************)
(* Demand simulation: gravity_demand.                                      *)
(***************************************************************************)
\* The functions core.py defines at its top level (the names a call inside
\* core.py can resolve, besides those of the imported modules).
core_functions ==
  {"combo_csv_to_graph", "edges_and_nodes_csv_to_graph", "node_gdf_from_graph",
   "edge_gdf_from_graph", "graph_nodes_intersecting_polygon",
   "graph_edges_intersecting_polygon", "sample_raster", "generate_isochrones",
   "make_iso_polys", "find_hwy_distances_by_class", "find_graph_avg_speed",
   "convert_network_to_time", "example_edge", "example_node", "calculate_OD",
   "disrupt_network", "randomly_disrupt_network", "gravity_demand",
   "unbundle_geometry", "save", "add_missing_reflected_edges",
   "remove_duplicate_edges", "convert_to_MultiDiGraph", "simplify_junctions",
   "custom_simplify", "salt_long_lines", "pandana_snap", "pandana_snap_points",
   "join_networks", "clip", "new_edge_generator", "reproject_graph",
   "euclidean_distance"}

\* np.zeros((rows, cols))
zeros(rows, cols) == [r \in 1..rows |-> [c \in 1..cols |-> 0]]

\* gravity_demand(G, origins, destinations, weight, maxtrips, dist_decay,
\* fail_value) up to its call of Calculate_OD: the values of maxtrips and
\* dist_decay in force, the matrix allocated, and the exception the lookup of
\* the name Calculate_OD ends the call with ("none" if the name resolves).
gravity_demand_until_OD(net, origins, destinations, weight, maxtrips, dist_decay) ==
  [maxtrips |-> 100,
   dist_decay |-> 1,
   demand |-> zeros(Len(origins), Len(destinations)),
   raised |-> IF "Calculate_OD" \in core_functions THEN "none" ELSE "NameError"]

\* gravity_demand: [raised, demand], the exception that ended the call and
\* the matrix returned.  The statements after the call of Calculate_OD are
\* never reached.
gravity_demand(net, origins, destinations, weight, maxtrips, dist_decay) ==
  LET at_OD == gravity_demand_until_OD(net, origins, destinations, weight,
                                       maxtrips, dist_decay)
  IN  [raised |-> at_OD.raised, demand |-> <<>>]

(***************************************************************************)
(* SpecGravity: gravity_demand on a network with a weight on every node.   *)
(***************************************************************************)
MaxGravityEdges == 1

MaxWeight == 1

TripLimits == {50, 100}

InitGravity ==
  /\ pc = "start"
  /\ \E n \in 1..NumNodes, k \in 0..MaxGravityEdges :
       \E es \in [1..k -> {e \in TimedEdges(n) : e.u # e.v}],
          w \in [1..n -> 0..MaxWeight] :
         /\ Ascending(es)
         /\ G = [nodes |-> 1..n, edges |-> es, weight |-> w]
  /\ args \in [origins : NonEmptySeqsUpTo(G.nodes, MaxList),
               destinations : NonEmptySeqsUpTo(G.nodes, MaxList),
               maxtrips : TripLimits]
  /\ ret = [raised |-> "not called", demand |-> <<>>]

\* demand = gravity_demand(G, origins, destinations, weight, maxtrips)
GravityDemand ==
  /\ pc = "start"
  /\ ret' = gravity_demand(G, args.origins, args.destinations, "weight",
                           args.maxtrips, 1)
  /\ pc' = "demand"
  /\ UNCHANGED <<G, args>>

NextGravity == GravityDemand

SpecGravity == InitGravity /\ [][NextGravity]_vars

\* C11: when gravity_demand is called with identical origin and destination
\* lists, the call returns a matrix whose diagonal cells are all exactly
\* zero, for every assignment of node weights (all-zero weights and a
\* single-node list included).
C11_DiagonalIsZeroForIdenticalLists ==
  (pc = "demand" /\ args.origins = args.destinations) =>
    /\ ret.raised = "none"
    /\ Shaped(ret.demand, Len(args.origins), Len(args.destinations))
    /\ \A o \in DOMAIN args.origins : ret.demand[o][o] = 0

\* The cells of a matrix.
Cells(M) == {M[r][c] : r \in DOMAIN M, c \in 1..(IF M = <<>> THEN 0 ELSE Len(M[1]))}

\* C16: for every caller-supplied max-trips value M (not only the default
\* 100) the largest cell of the matrix returned by gravity_demand equals M,
\* and every cell is an integer between 0 and M.
C16_LargestCellIsMaxTrips ==
  pc = "demand" =>
    /\ ret.raised = "none"
    /\ Shaped(ret.demand, Len(args.origins), Len(args.destinations))
    /\ Cells(ret.demand) \subseteq 0..args.maxtrips
    /\ args.maxtrips \in Cells(ret.demand)

(***************************************************************************)
(* Map-data parsing: osm_parser.py.                                        *)
(*                                                                         *)
(* A parsed way is a record with its id and its node references nds; the   *)
(* dictionary of ways is the sequence of its values in insertion order.    *)
(* The sub-way id  id + "-%d" % i  is held as <<id, i>>.                   *)
(***************************************************************************)
\* A slicing that divides only at nodes counted more than twice.
RECURSIVE slice_array_above_two(_, _)
slice_array_above_two(ar, dividers) ==
  LET hits == {i \in 2..(Len(ar) - 1) : dividers[ar[i]] > 2}
  IN  IF hits = {} THEN <<ar>>
      ELSE <<SubSeq(ar, 1, Min(hits))>>
             \o slice_array_above_two(SubSeq(ar, Min(hits), Len(ar)), dividers)

\* A slicing that leaves the dividing node out of the right part.
RECURSIVE slice_array_without_boundary(_, _)
slice_array_without_boundary(ar, dividers) ==
  LET hits == {i \in 2..(Len(ar) - 1) : dividers[ar[i]] > 1}
  IN  IF hits = {} THEN <<ar>>
      ELSE <<SubSeq(ar, 1, Min(hits))>>
             \o slice_array_without_boundary(SubSeq(ar, Min(hits) + 1, Len(ar)),
                                             dividers)

\* Way.split.slice_array(ar, dividers): the first interior position whose
\* node is counted more than once divides ar, and the right part is sliced
\* in turn.
RECURSIVE slice_array(_, _)
slice_array(ar, dividers) ==
  LET hits == {i \in 2..(Len(ar) - 1) : dividers[ar[i]] > 1}
  IN  IF hits = {} THEN <<ar>>
      ELSE <<SubSeq(ar, 1, Min(hits))>>
             \o slice_array(SubSeq(ar, Min(hits), Len(ar)), dividers)

\* Way.split(dividers): a copy of the way for each slice.
Way_split(way, dividers) ==
  LET slices == slice_array(way.nds, dividers)
  IN  [i \in 1..Len(slices) |->
         [way EXCEPT !.id = <<way.id, i - 1>>, !.nds = slices[i]]]

\* node_histogram after counting the references of the nodes of nds from
\* position i on.
RECURSIVE count_nodes(_, _, _)
count_nodes(nds, i, node_histogram) ==
  IF i > Len(nds) THEN node_histogram
  ELSE count_nodes(nds, i + 1, [node_histogram EXCEPT ![nds[i]] = @ + 1])

\* The loop of OSM.__init__ that counts the times each node is used, from
\* the k-th way on.  Deleting a way from self.ways while its values are
\* iterated ends the loop with RuntimeError; a reference to a node that was
\* not parsed ends it with KeyError.
RECURSIVE count_ways(_, _, _)
count_ways(ways, k, node_histogram) ==
  IF k > Len(ways) THEN [raised |-> "none", node_histogram |-> node_histogram]
  ELSE IF Len(ways[k].nds) < 2
  THEN [raised |-> "RuntimeError", node_histogram |-> node_histogram]
  ELSE IF \E i \in DOMAIN ways[k].nds : ways[k].nds[i] \notin DOMAIN node_histogram
  THEN [raised |-> "KeyError", node_histogram |-> node_histogram]
  ELSE count_ways(ways, k + 1, count_nodes(ways[k].nds, 1, node_histogram))

\* The loop of OSM.__init__ that replaces the ways by their splits, from the
\* k-th way on.
RECURSIVE split_ways(_, _, _)
split_ways(ways, k, node_histogram) ==
  IF k > Len(ways) THEN <<>>
  ELSE Way_split(ways[k], node_histogram) \o split_ways(ways, k + 1, node_histogram)

\* OSM.__init__ after xml.sax.parse: [raised, nodes, ways], the exception
\* that ended the construction ("none" when it completed) and the document.
OSM_init(nodes, ways) ==
  LET counted == count_ways(ways, 1, [n \in nodes |-> 0])
  IN  IF counted.raised # "none"
      THEN [raised |-> counted.raised, nodes |-> {}, ways |-> <<>>]
      ELSE [raised |-> "none", nodes |-> nodes,
            ways |-> split_ways(ways, 1, counted.node_histogram)]

(***************************************************************************)
(* SpecOSM: construction of an OSM document from parsed nodes and ways.    *)
(***************************************************************************)
NumOsmNodes == 3

MaxWays == 2

MaxWayLen == 4

InitOSM ==
  /\ pc = "start"
  /\ \E n \in (NumOsmNodes - 1)..NumOsmNodes, k \in 0..MaxWays :
       \E nds \in [1..k -> SeqsUpTo(1..NumOsmNodes, MaxWayLen)] :
         G = [nodes |-> 1..n, ways |-> [i \in 1..k |-> [id |-> i, nds |-> nds[i]]]]
  /\ args = <<>>
  /\ ret = [raised |-> "not called", nodes |-> {}, ways |-> <<>>]

\* osm = OSM(filename_or_stream)
ConstructOSM ==
  /\ pc = "start"
  /\ ret' = OSM_init(G.nodes, G.ways)
  /\ pc' = "parsed"
  /\ UNCHANGED <<G, args>>

NextOSM == ConstructOSM

SpecOSM == InitOSM /\ [][NextOSM]_vars

\* The parsed ways other than the k-th that reference node n.
OtherWaysWith(k, n) ==
  {j \in DOMAIN G.ways : j # k /\ n \in Range(G.ways[j].nds)}

\* The interior positions of a node sequence.
Interior(nds) == 2..(Len(nds) - 1)

\* C12: after an OSM document is constructed from a set of parsed ways, no
\* resulting way contains, at a position that is neither first nor last, a
\* node referenced by more than one way; and a way whose interior node is
\* shared with a second way is split into sub-ways that have that node as a
\* common boundary.
C12_NoSharedNodeInsideAWay ==
  (pc = "parsed" /\ ret.raised = "none") =>
    /\ \A w \in DOMAIN ret.ways : \A i \in Interior(ret.ways[w].nds) :
         /\ OtherWaysWith(ret.ways[w].id[1], ret.ways[w].nds[i]) = {}
         /\ \A x \in DOMAIN ret.ways :
              x # w => ret.ways[w].nds[i] \notin Range(ret.ways[x].nds)
    /\ \A k \in DOMAIN G.ways : \A i \in Interior(G.ways[k].nds) :
         OtherWaysWith(k, G.ways[k].nds[i]) # {} =>
           \E w \in DOMAIN ret.ways :
             /\ w + 1 \in DOMAIN ret.ways
             /\ ret.ways[w].id[1] = k /\ ret.ways[w + 1].id[1] = k
             /\ ret.ways[w + 1].id[2] = ret.ways[w].id[2] + 1
             /\ ret.ways[w].nds[Len(ret.ways[w].nds)] = G.ways[k].nds[i]
             /\ ret.ways[w + 1].nds[1] = G.ways[k].nds[i]

\* A document constructed from two ways, one of which has at an interior
\* position a node of the other, and is split there.
C12_Witness ==
  /\ pc = "parsed" /\ ret.raised = "none"
  /\ Len(ret.ways) > Len(G.ways)
  /\ \E k \in DOMAIN G.ways : \E i \in Interior(G.ways[k].nds) :
       OtherWaysWith(k, G.ways[k].nds[i]) # {}

(***************************************************************************)
(* Travel-time conversion: convert_network_to_time.                        *)
(*                                                                         *)
(* Speeds are held in tenths of a km/h (walk_speed 4.5 is 45) and a time   *)
(* in seconds as the fraction <<numerator, denominator>> in lowest terms.  *)
(* A road class attribute is [is_list, classes]: a bare class is the       *)
(* one-element sequence with is_list FALSE.  A speed table or a default    *)
(* class that is None is [given |-> FALSE].                                *)
(***************************************************************************)
\* data[key] = value on an attribute dictionary.
setitem(data, key, value) ==
  [k \in DOMAIN data \cup {key} |-> IF k = key THEN value ELSE data[k]]

RECURSIVE GCD(_, _)
GCD(a, b) == IF b = 0 THEN a ELSE GCD(b, a % b)

Fraction(n, d) == <<n \div GCD(n, d), d \div GCD(n, d)>>

\* The speed table of core.py:703-716.
default_speed_dict ==
  [residential |-> 200, primary |-> 400, primary_link |-> 350, motorway |-> 500,
   motorway_link |-> 450, trunk |-> 400, trunk_link |-> 350, secondary |-> 300,
   secondary_link |-> 250, tertiary |-> 300, tertiary_link |-> 250,
   unclassified |-> 200]

\* A choice of speed that never looks at the default class.
drive_speed_without_default(highway, speed_dict, default) ==
  LET highwayclass == highway.classes[1]
  IN  IF highwayclass \in DOMAIN speed_dict
      THEN [raised |-> "none", speed |-> speed_dict[highwayclass]]
      ELSE [raised |-> "none", speed |-> 200]

\* The speed of one edge in drive mode (core.py:718-729), speed_dict being
\* the table in force.
drive_speed(highway, speed_dict, default) ==
  LET highwayclass == highway.classes[1]
  IN  IF highwayclass \in DOMAIN speed_dict
      THEN [raised |-> "none", speed |-> speed_dict[highwayclass]]
      ELSE IF ~default.given
      THEN [raised |-> "none", speed |-> 200]
      ELSE IF default.class \in DOMAIN speed_dict
      THEN [raised |-> "none", speed |-> speed_dict[default.class]]
      ELSE [raised |-> "KeyError", speed |-> 0]

\* One pass of the loop of convert_network_to_time: the edge data after it,
\* or the exception it raises.
convert_edge(data, graph_type, speed_dict, walk_speed, factor, default) ==
  LET orig_len == data.distance * factor
      table == IF speed_dict.given THEN speed_dict.table ELSE default_speed_dict
      chosen == IF graph_type = "walk"
                THEN [raised |-> "none", speed |-> walk_speed]
                ELSE IF graph_type = "drive"
                THEN drive_speed(data.highway, table, default)
                ELSE [raised |-> "ValueError", speed |-> 0]
  IN  [raised |-> chosen.raised,
       data |-> IF chosen.raised # "none" THEN data
                ELSE setitem(setitem(setitem(data, "length", orig_len),
                                     "time", Fraction(orig_len * 36, chosen.speed)),
                             "mode", graph_type)]

\* convert_network_to_time(G, distance_tag, graph_type, road_col, speed_dict,
\* walk_speed, factor, default): [raised, G], the exception that ended the
\* call ("none" when it returned) and the network returned.
convert_network_to_time(net, graph_type, speed_dict, walk_speed, factor, default) ==
  IF net.type \notin {"MultiDiGraph", "DiGraph"}
  THEN [raised |-> "ValueError", G |-> [type |-> "None", nodes |-> {}, edges |-> <<>>]]
  ELSE
  LET done == [k \in DOMAIN net.edges |->
                 convert_edge(net.edges[k], graph_type, speed_dict, walk_speed,
                              factor, default)]
      failed == {k \in DOMAIN net.edges : done[k].raised # "none"}
  IN  IF failed # {}
      THEN [raised |-> done[edges_iter(net.edges)[
                             Min({i \in DOMAIN net.edges :
                                    edges_iter(net.edges)[i] \in failed})]].raised,
            G |-> [type |-> "None", nodes |-> {}, edges |-> <<>>]]
      ELSE [raised |-> "none",
            G |-> [net EXCEPT !.edges = [k \in DOMAIN net.edges |-> done[k].data]]]

(***************************************************************************)
(* SpecTime: convert_network_to_time on a network whose edges carry a      *)
(* distance in metres and a road class.                                    *)
(***************************************************************************)
NumTimeNodes == 2

MaxTimeEdges == 2

Distances == {1200, 5000}

RoadClasses ==
  {[is_list |-> FALSE, classes |-> <<"residential">>],
   [is_list |-> FALSE, classes |-> <<"track">>],
   [is_list |-> TRUE, classes |-> <<"primary", "track">>],
   [is_list |-> TRUE, classes |-> <<"track", "residential">>]}

SpeedTables ==
  {[given |-> FALSE, table |-> <<>>],
   [given |-> TRUE, table |-> [residential |-> 300, service |-> 150]]}

DefaultClasses ==
  {[given |-> FALSE, class |-> ""],
   [given |-> TRUE, class |-> "residential"],
   [given |-> TRUE, class |-> "path"]}

RoadEdges(n) ==
  [u : 1..n, v : 1..n, distance : Distances, highway : RoadClasses]

InitTime ==
  /\ pc = "start"
  /\ \E n \in 1..NumTimeNodes, k \in 0..MaxTimeEdges, type \in {"MultiDiGraph", "DiGraph", "Graph"} :
       \E es \in [1..k -> {e \in RoadEdges(n) : e.u # e.v}] :
         /\ type = "MultiDiGraph" \/ \A i, j \in 1..k : i # j => <<es[i].u, es[i].v>> # <<es[j].u, es[j].v>>
         /\ G = [type |-> type, nodes |-> 1..n, edges |-> es]
  /\ args \in [graph_type : {"drive", "walk", "bike"},
               speed_dict : SpeedTables,
               walk_speed : {45},
               factor : 1..2,
               default : DefaultClasses]
  /\ ret = [raised |-> "not called", G |-> [type |-> "None", nodes |-> {}, edges |-> <<>>]]

\* G_time = convert_network_to_time(G, 'distance', graph_type, 'highway',
\* speed_dict, walk_speed, factor, default)
ConvertNetworkToTime ==
  /\ pc = "start"
  /\ ret' = convert_network_to_time(G, args.graph_type, args.speed_dict,
                                    args.walk_speed, args.factor, args.default)
  /\ pc' = "converted"
  /\ UNCHANGED <<G, args>>

NextTime == ConvertNetworkToTime

SpecTime == InitTime /\ [][NextTime]_vars

\* The speed the claim C13 gives the k-th edge of G, in tenths of a km/h, as
\* a set: empty when the default class it names has no entry in the table.
ClaimedSpeed(k) ==
  LET table == IF args.speed_dict.given THEN args.speed_dict.table ELSE default_speed_dict
      class == G.edges[k].highway.classes[1]
  IN  IF args.graph_type = "walk" THEN {args.walk_speed}
      ELSE IF class \in DOMAIN table THEN {table[class]}
      ELSE IF args.default.given
      THEN {table[c] : c \in {args.default.class} \cap DOMAIN table}
      ELSE {200}

\* C13: convert_network_to_time sets on every edge length = distance x
\* factor, mode = the requested mode and time = (length / 1000) / speed x
\* 3600, where speed is walk_speed in walk mode and in drive mode the speed
\* table entry of the edge's road class (first element if the class is a
\* list), else the table entry of the default class when one is given, else
\* 20 km/h; 5000 m of residential road in drive mode gives 900 s.
C13_EveryEdgeGetsLengthModeAndTime ==
  (pc = "converted" /\ ret.raised = "none") =>
    /\ ret.G.nodes = G.nodes
    /\ Len(ret.G.edges) = Len(G.edges)
    /\ \A k \in DOMAIN G.edges :
         /\ ret.G.edges[k].u = G.edges[k].u /\ ret.G.edges[k].v = G.edges[k].v
         /\ ret.G.edges[k].length = G.edges[k].distance * args.factor
         /\ ret.G.edges[k].mode = args.graph_type
         /\ ret.G.edges[k].time \in
              {Fraction(G.edges[k].distance * args.factor * 36, speed) :
                 speed \in ClaimedSpeed(k)}
         /\ (/\ args.graph_type = "drive" /\ ~args.speed_dict.given
             /\ G.edges[k].highway.classes[1] = "residential"
             /\ G.edges[k].distance * args.factor = 5000)
            => ret.G.edges[k].time = <<900, 1>>

\* A drive-mode call that returned with an edge timed by the default class
\* and a 5000 m residential edge timed at 900 s.
C13_Witness ==
  /\ pc = "converted" /\ ret.raised = "none"
  /\ args.graph_type = "drive" /\ args.default.given /\ ~args.speed_dict.given
  /\ \E k \in DOMAIN G.edges : G.edges[k].highway.classes[1] = "track"
  /\ \E k \in DOMAIN G.edges :
       /\ G.edges[k].highway = [is_list |-> FALSE, classes |-> <<"residential">>]
       /\ G.edges[k].distance = 5000 /\ args.factor = 1
       /\ ret.G.edges[k].time = <<900, 1>>

\* C19: convert_network_to_time fails with an InvalidInput error for every
\* mode other than 'drive' or 'walk', on every directed (multi)graph input,
\* a network with no edges included, and returns no network in that case.
C19_UnknownModeFails ==
  (/\ pc = "converted"
   /\ args.graph_type \notin {"drive", "walk"}
   /\ G.type \in {"MultiDiGraph", "DiGraph"})
  => (ret.raised = "ValueError" /\ ret.G.type = "None")

(***************************************************************************)
(* Disruption: disrupt_network and randomly_disrupt_network.               *)
(*                                                                         *)
(* net.data[u] is [given, value]: whether node u has the tested property   *)
(* and its value.                                                          *)
(***************************************************************************)
\* The nodes at or above the threshold.
broken_nodes_at_or_above(net, thresh) ==
  {u \in net.nodes : net.data[u].value >= thresh}

\* broken_nodes of disrupt_network: the nodes with data[property] > thresh.
broken_nodes(net, thresh) ==
  {u \in net.nodes : net.data[u].value > thresh}

\* disrupt_network(G, property, thresh, fail_value): [raised, G], the
\* exception that ended the call ("none" when it returned) and the network
\* returned.
disrupt_network(net, thresh, fail_value) ==
  IF \E u \in net.nodes : ~net.data[u].given
  THEN [raised |-> "KeyError", G |-> [nodes |-> {}, data |-> <<>>, edges |-> <<>>]]
  ELSE [raised |-> "none",
        G |-> [net EXCEPT !.edges =
                 [k \in DOMAIN net.edges |->
                    IF net.edges[k].u \in broken_nodes(net, thresh)
                       \/ net.edges[k].v \in broken_nodes(net, thresh)
                    THEN [net.edges[k] EXCEPT !.time = fail_value]
                    ELSE net.edges[k]]]]

(***************************************************************************)
(* SpecDisrupt: disrupt_network on a network with a time on every edge.    *)
(***************************************************************************)
NumDisruptNodes == 3

MaxDisruptEdges == 2

MaxProperty == 2

InitDisrupt ==
  /\ pc = "start"
  /\ \E n \in 1..NumDisruptNodes, k \in 0..MaxDisruptEdges :
       \E es \in [1..k -> TimedEdges(n)],
          d \in [1..n -> [given : BOOLEAN, value : 0..MaxProperty]] :
         /\ Ascending(es)
         /\ \A u \in 1..n : ~d[u].given => d[u].value = 0
         /\ G = [nodes |-> 1..n, data |-> d, edges |-> es]
  /\ args \in [thresh : 0..MaxProperty, fail_value : {FailValue}]
  /\ ret = [raised |-> "not called", G |-> [nodes |-> {}, data |-> <<>>, edges |-> <<>>]]

\* G_disrupted = disrupt_network(G, property, thresh, fail_value)
DisruptNetwork ==
  /\ pc = "start"
  /\ ret' = disrupt_network(G, args.thresh, args.fail_value)
  /\ pc' = "disrupted"
  /\ UNCHANGED <<G, args>>

NextDisrupt == DisruptNetwork

SpecDisrupt == InitDisrupt /\ [][NextDisrupt]_vars

\* The k-th edge of G touches a node whose property value is above thresh.
TouchesBroken(k) ==
  \/ G.data[G.edges[k].u].value > args.thresh
  \/ G.data[G.edges[k].v].value > args.thresh

\* C14: in the network returned by disrupt_network(G, property, thresh,
\* fail_value) an edge has time = fail_value if at least one of its
\* endpoints has a property value strictly greater than thresh, every other
\* edge keeps the time it had in G, and no node or edge is added or removed.
C14_EdgesAtBrokenNodesFail ==
  (pc = "disrupted" /\ ret.raised = "none") =>
    /\ ret.G.nodes = G.nodes
    /\ ret.G.data = G.data
    /\ Len(ret.G.edges) = Len(G.edges)
    /\ \A k \in DOMAIN G.edges :
         /\ ret.G.edges[k].u = G.edges[k].u /\ ret.G.edges[k].v = G.edges[k].v
         /\ ret.G.edges[k].time =
              IF TouchesBroken(k) THEN args.fail_value ELSE G.edges[k].time

\* A call that returned with one edge failed through its target node only,
\* one edge kept, and a node exactly at the threshold.
C14_Witness ==
  /\ pc = "disrupted" /\ ret.raised = "none"
  /\ \E k \in DOMAIN G.edges :
       /\ G.data[G.edges[k].u].value <= args.thresh
       /\ G.data[G.edges[k].v].value > args.thresh
       /\ ret.G.edges[k].time = args.fail_value
  /\ \E k \in DOMAIN G.edges :
       /\ ~TouchesBroken(k)
       /\ G.data[G.edges[k].u].value = args.thresh
       /\ ret.G.edges[k].time # args.fail_value

\* A destroy count taken from the number of distinct edge_id values.
num_to_destroy_of_distinct_ids(edges, edge_frac) ==
  (Cardinality({edges[k].edge_id : k \in DOMAIN edges}) * edge_frac) \div 200

\* num_to_destroy of randomly_disrupt_network:
\* math.floor(len(edgeid) / 2 * (edge_frac / 100)), edgeid holding the
\* edge_id of every edge.
num_to_destroy(edges, edge_frac) == (Len(edges) * edge_frac) \div 200

\* list(np.random.randint(low, high, size = [size])): the lists the call
\* may return, and the exceptions it may end with.  With no number to draw
\* and an empty range the outcome depends on the numpy release (an empty
\* list, or ValueError).
randint(low, high, size) ==
  IF low < high
  THEN {[raised |-> "none", list |-> l] : l \in [1..size -> low..(high - 1)]}
  ELSE IF size = 0
  THEN {[raised |-> "none", list |-> <<>>], [raised |-> "ValueError", list |-> <<>>]}
  ELSE {[raised |-> "ValueError", list |-> <<>>]}

\* What randomly_disrupt_network(G, edge_frac, fail_value) may do:
\* [raised, G, destroy_list], the exception that ended the call ("none" when
\* it returned), the network and the list of ids returned.
randomly_disrupt_network(net, edge_frac, fail_value) ==
  LET nothing == [nodes |-> {}, edges |-> <<>>]
      edgeid == [k \in DOMAIN net.edges |-> net.edges[k].edge_id]
  IN  IF edgeid = <<>>
      THEN {[raised |-> "ValueError", G |-> nothing, destroy_list |-> <<>>]}
      ELSE {IF drawn.raised # "none"
            THEN [raised |-> drawn.raised, G |-> nothing, destroy_list |-> <<>>]
            ELSE [raised |-> "none",
                  G |-> [net EXCEPT !.edges =
                           [k \in DOMAIN net.edges |->
                              IF net.edges[k].edge_id \in Range(drawn.list)
                              THEN [net.edges[k] EXCEPT !.time = fail_value]
                              ELSE net.edges[k]]],
                  destroy_list |-> drawn.list] :
            drawn \in randint(0, Max(Range(edgeid)),
                              num_to_destroy(net.edges, edge_frac))}

(***************************************************************************)
(* SpecRandom: randomly_disrupt_network on a network whose edges carry a   *)
(* time and an edge_id that need not be unique.                            *)
(***************************************************************************)
NumRandomNodes == 2

MaxRandomEdges == 3

MaxEdgeId == 2

EdgeFractions == {50, 100, 200}

InitRandom ==
  /\ pc = "start"
  /\ \E n \in 1..NumRandomNodes, k \in 0..MaxRandomEdges :
       \E es \in [1..k -> [u : 1..n, v : 1..n, time : 1..MaxTime, edge_id : 0..MaxEdgeId]] :
         G = [nodes |-> 1..n, edges |-> es]
  /\ args \in [edge_frac : EdgeFractions, fail_value : {FailValue}]
  /\ ret = [raised |-> "not called", G |-> [nodes |-> {}, edges |-> <<>>],
            destroy_list |-> <<>>]

\* G_disrupted, destroy_list = randomly_disrupt_network(G, edge_frac,
\* fail_value)
RandomlyDisruptNetwork ==
  /\ pc = "start"
  /\ ret' \in randomly_disrupt_network(G, args.edge_frac, args.fail_value)
  /\ pc' = "disrupted"
  /\ UNCHANGED <<G, args>>

NextRandom == RandomlyDisruptNetwork

SpecRandom == InitRandom /\ [][NextRandom]_vars

\* In the network returned an edge has time = fail_value exactly when its
\* edge_id is among the ids returned, every other time being unchanged.
FailedExactlyWhenDrawn ==
  /\ ret.G.nodes = G.nodes
  /\ Len(ret.G.edges) = Len(G.edges)
  /\ \A k \in DOMAIN G.edges :
       /\ (ret.G.edges[k].time = args.fail_value)
            <=> (G.edges[k].edge_id \in Range(ret.destroy_list))
       /\ G.edges[k].edge_id \notin Range(ret.destroy_list)
            => ret.G.edges[k] = G.edges[k]

\* The number of distinct edge_id values of G.
DistinctEdgeIds == Cardinality({G.edges[k].edge_id : k \in DOMAIN G.edges})

missing_edges_untested(edges) ==
  [i \in DOMAIN edges |->
     [edges[edges_iter(edges)[i]] EXCEPT !.u = edges[edges_iter(edges)[i]].v,
                                         !.v = edges[edges_iter(edges)[i]].u]]

\* missing_edges of add_missing_reflected_edges: for every edge (u, v, data)
\* in turn with no edge (v, u) in the network, the edge (v, u, data).
missing_edges(edges) ==
  LET unique_edges == {<<edges[k].u, edges[k].v>> : k \in DOMAIN edges}
      order == edges_iter(edges)
      missing == [i \in DOMAIN order |->
                    <<edges[order[i]].v, edges[order[i]].u>> \notin unique_edges]
      kept == SelectSeq2(order, missing)
  IN  [i \in DOMAIN kept |->
         [edges[kept[i]] EXCEPT !.u = edges[kept[i]].v, !.v = edges[kept[i]].u]]

\* add_missing_reflected_edges(G): the network returned.
add_missing_reflected_edges(net) ==
  [net EXCEPT !.edges = net.edges \o missing_edges(net.edges)]

(***************************************************************************)
(* SpecReflect: add_missing_reflected_edges, applied to a network and then *)
(* to its own result.                                                      *)
(***************************************************************************)
NumReflectNodes == 3

MaxReflectEdges == 3

InitReflect ==
  /\ pc = "start"
  /\ \E n \in 1..NumReflectNodes, k \in 0..MaxReflectEdges :
       \E es \in [1..k -> [u : 1..n, v : 1..n, length : 1..MaxLength]] :
         G = [nodes |-> 1..n, edges |-> es]
  /\ args = <<>>
  /\ ret = <<>>

\* G2 = add_missing_reflected_edges(G)
AddMissingReflectedEdges ==
  /\ pc = "start"
  /\ ret' = <<add_missing_reflected_edges(G)>>
  /\ pc' = "reflected"
  /\ UNCHANGED <<G, args>>

\* G3 = add_missing_reflected_edges(G2)
AddMissingReflectedEdgesAgain ==
  /\ pc = "reflected"
  /\ ret' = Append(ret, add_missing_reflected_edges(ret[1]))
  /\ pc' = "reflected_twice"
  /\ UNCHANGED <<G, args>>

NextReflect == AddMissingReflectedEdges \/ AddMissingReflectedEdgesAgain

SpecReflect == InitReflect /\ [][NextReflect]_vars

\* The attribute map of an edge.
Attributes(e) == [k \in DOMAIN e \ {"u", "v"} |-> e[k]]

\* C17: after add_missing_reflected_edges the result contains every edge of
\* the input and, for every edge (u, v), at least one edge (v, u); each
\* added edge (v, u) carries the attribute map of an input edge (u, v), and
\* edges are added only for ordered pairs that had no edge in the input, so
\* applying the operation to its own result adds nothing.
C17_EveryEdgeGetsAReflection ==
  /\ pc \in {"reflected", "reflected_twice"} =>
       /\ ret[1].nodes = G.nodes
       /\ Len(ret[1].edges) >= Len(G.edges)
       /\ SubSeq(ret[1].edges, 1, Len(G.edges)) = G.edges
       /\ \A k \in DOMAIN ret[1].edges : \E j \in DOMAIN ret[1].edges :
            ret[1].edges[j].u = ret[1].edges[k].v /\ ret[1].edges[j].v = ret[1].edges[k].u
       /\ \A k \in (Len(G.edges) + 1)..Len(ret[1].edges) :
            /\ \E j \in DOMAIN G.edges :
                 /\ G.edges[j].u = ret[1].edges[k].v
                 /\ G.edges[j].v = ret[1].edges[k].u
                 /\ Attributes(G.edges[j]) = Attributes(ret[1].edges[k])
            /\ EdgesBetween(G.edges, ret[1].edges[k].u, ret[1].edges[k].v) = {}
  /\ pc = "reflected_twice" => ret[2] = ret[1]

\* Two applications, the first of which added the reflections of two
\* parallel one-way edges of different length and nothing else.
C17_Witness ==
  /\ pc = "reflected_twice"
  /\ Len(ret[1].edges) = Len(G.edges) + 2
  /\ \E j, k \in DOMAIN G.edges :
       /\ j # k /\ G.edges[j].u = G.edges[k].u /\ G.edges[j].v = G.edges[k].v
       /\ G.edges[j].u # G.edges[j].v
       /\ G.edges[j].length # G.edges[k].length
       /\ EdgesBetween(G.edges, G.edges[j].v, G.edges[j].u) = {}

(***************************************************************************)
(* Frame of the functions that return a changed network.                   *)
(*                                                                         *)
(* The network objects are held in a heap, a sequence of networks indexed  *)
(* by reference.  Each function below takes the reference G of the         *)
(* caller's network and gives [heap, raised, ret]: the heap as the call    *)
(* leaves it, the exception that ended it ("none" when it returned) and    *)
(* the reference it returned (0 when it raised).                           *)
(***************************************************************************)
\* No copy: the same object under a second name.
copy_as_alias(heap, ref) == [heap |-> heap, ref |-> ref]

\* G.copy(): a new network object with the nodes, the edges and the
\* attribute dictionaries of the one copied.
copy(heap, ref) == [heap |-> Append(heap, heap[ref]), ref |-> Len(heap) + 1]

\* disrupt_network: G_copy = G.copy() (core.py:834), all writes to G_copy.
disrupt_network_call(heap, G_ref, thresh, fail_value) ==
  LET G_copy == copy(heap, G_ref)
      done == disrupt_network(G_copy.heap[G_copy.ref], thresh, fail_value)
  IN  IF done.raised # "none"
      THEN [heap |-> G_copy.heap, raised |-> done.raised, ret |-> 0]
      ELSE [heap |-> [G_copy.heap EXCEPT ![G_copy.ref] = done.G],
            raised |-> "none", ret |-> G_copy.ref]

\* randomly_disrupt_network: the ids are read from G, then G_adj = G.copy()
\* (core.py:875) and all writes go to G_adj.
randomly_disrupt_network_call(heap, G_ref, edge_frac, fail_value) ==
  LET G_adj == copy(heap, G_ref)
  IN  {IF done.raised # "none"
       THEN [heap |-> heap, raised |-> done.raised, ret |-> 0]
       ELSE [heap |-> [G_adj.heap EXCEPT ![G_adj.ref] =
                         [@ EXCEPT !.edges =
                            [k \in DOMAIN @ |->
                               IF @[k].edge_id \in Range(done.destroy_list)
                               THEN [@[k] EXCEPT !.time = fail_value] ELSE @[k]]]],
             raised |-> "none", ret |-> G_adj.ref] :
       done \in randomly_disrupt_network(heap[G_ref], edge_frac, fail_value)}

\* convert_network_to_time: G_adj = G.copy() (core.py:685), all writes to
\* G_adj.
convert_network_to_time_call(heap, G_ref, graph_type, speed_dict, walk_speed, factor, default) ==
  IF heap[G_ref].type \notin {"MultiDiGraph", "DiGraph"}
  THEN [heap |-> heap, raised |-> "ValueError", ret |-> 0]
  ELSE
  LET G_adj == copy(heap, G_ref)
      done == convert_network_to_time(G_adj.heap[G_adj.ref], graph_type, speed_dict,
                                      walk_speed, factor, default)
  IN  IF done.raised # "none"
      THEN [heap |-> G_adj.heap, raised |-> done.raised, ret |-> 0]
      ELSE [heap |-> [G_adj.heap EXCEPT ![G_adj.ref] = done.G],
            raised |-> "none", ret |-> G_adj.ref]

\* add_missing_reflected_edges: the missing edges are read from G, then
\* G2 = G.copy() (core.py:986) and the edges are added to G2.
add_missing_reflected_edges_call(heap, G_ref) ==
  LET G2 == copy(heap, G_ref)
  IN  [heap |-> [G2.heap EXCEPT ![G2.ref] =
                   [@ EXCEPT !.edges = @ \o missing_edges(heap[G_ref].edges)]],
       raised |-> "none", ret |-> G2.ref]

\* remove_duplicate_edges: G2 = G.copy() (core.py:998), edges removed from
\* G2.
remove_duplicate_edges_call(heap, G_ref, max_ratio) ==
  LET G2 == copy(heap, G_ref)
  IN  [heap |-> [G2.heap EXCEPT ![G2.ref] = remove_duplicate_edges(@, max_ratio)],
       raised |-> "none", ret |-> G2.ref]

\* custom_simplify: G = G.copy() (core.py:1331), edges added to and nodes
\* removed from the copy.
custom_simplify_call(heap, G_ref, strict) ==
  LET G2 == copy(heap, G_ref)
      done == custom_simplify(G2.heap[G2.ref], strict)
  IN  [heap |-> [G2.heap EXCEPT ![G2.ref] =
                   [@ EXCEPT !.nodes = done.nodes, !.edges = done.edges]],
       raised |-> "none", ret |-> G2.ref]

(***************************************************************************)
(* SpecFrame: one call of one of the six functions on the caller's network *)
(* G; args.before is G as it was when the call was made and ret the        *)
(* network returned.                                                       *)
(***************************************************************************)
NumFrameNodes == 2

MaxFrameEdges == 2

NoNetwork == [nodes |-> {}, edges |-> <<>>]

InitFrameDisrupt ==
  /\ \E n \in 1..NumFrameNodes, k \in 0..MaxFrameEdges :
       \E es \in [1..k -> TimedEdges(n)], d \in [1..n -> [given : {TRUE}, value : 0..1]] :
         G = [nodes |-> 1..n, data |-> d, edges |-> es]
  /\ args = [fn |-> "disrupt_network", before |-> G, thresh |-> 0, fail_value |-> FailValue]

InitFrameRandom ==
  /\ \E n \in 1..NumFrameNodes, k \in 0..MaxFrameEdges :
       \E es \in [1..k -> [u : 1..n, v : 1..n, time : 1..MaxTime, edge_id : 0..1]] :
         G = [nodes |-> 1..n, edges |-> es]
  /\ args = [fn |-> "randomly_disrupt_network", before |-> G, edge_frac |-> 100,
             fail_value |-> FailValue]

InitFrameTime ==
  /\ \E n \in 1..NumFrameNodes, k \in 0..MaxFrameEdges :
       \E es \in [1..k -> {e \in RoadEdges(n) : e.u # e.v}] :
         G = [type |-> "MultiDiGraph", nodes |-> 1..n, edges |-> es]
  /\ \E graph_type \in {"drive", "walk", "bike"} :
       args = [fn |-> "convert_network_to_time", before |-> G, graph_type |-> graph_type,
               speed_dict |-> [given |-> FALSE, table |-> <<>>], walk_speed |-> 45,
               factor |-> 1, default |-> [given |-> FALSE, class |-> ""]]

InitFrameReflect ==
  /\ \E n \in 1..NumFrameNodes, k \in 0..MaxFrameEdges :
       \E es \in [1..k -> [u : 1..n, v : 1..n, length : 1..MaxLength]] :
         G = [nodes |-> 1..n, edges |-> es]
  /\ args = [fn |-> "add_missing_reflected_edges", before |-> G]

InitFrameDup ==
  /\ \E n \in 1..NumFrameNodes, k \in 0..MaxFrameEdges :
       \E es \in [1..k -> LengthEdges(n)] : G = [nodes |-> 1..n, edges |-> es]
  /\ args = [fn |-> "remove_duplicate_edges", before |-> G, max_ratio |-> DefaultMaxRatio]

InitFrameSimplify ==
  /\ \E n \in 1..NumNodes, k \in 0..MaxFrameEdges :
       \E es \in [1..k -> WayEdges(n)] : G = [nodes |-> 1..n, edges |-> es]
  /\ \E strict \in BOOLEAN :
       args = [fn |-> "custom_simplify", before |-> G, strict |-> strict]

InitFrame ==
  /\ pc = "start"
  /\ ret = [raised |-> "not called", G |-> NoNetwork]
  /\ \/ InitFrameDisrupt
     \/ InitFrameRandom
     \/ InitFrameTime
     \/ InitFrameReflect
     \/ InitFrameDup
     \/ InitFrameSimplify

\* The caller's network and the result after a call that left the heap as
\* in done.
Returned(done) ==
  /\ G' = done.heap[1]
  /\ ret' = [raised |-> done.raised,
             G |-> IF done.ret = 0 THEN NoNetwork ELSE done.heap[done.ret]]
  /\ pc' = "returned"
  /\ UNCHANGED args

FrameDisruptNetwork ==
  /\ pc = "start" /\ args.fn = "disrupt_network"
  /\ Returned(disrupt_network_call(<<G>>, 1, args.thresh, args.fail_value))

FrameRandomlyDisruptNetwork ==
  /\ pc = "start" /\ args.fn = "randomly_disrupt_network"
  /\ \E done \in randomly_disrupt_network_call(<<G>>, 1, args.edge_frac, args.fail_value) :
       Returned(done)

FrameConvertNetworkToTime ==
  /\ pc = "start" /\ args.fn = "convert_network_to_time"
  /\ Returned(convert_network_to_time_call(<<G>>, 1, args.graph_type, args.speed_dict,
                                           args.walk_speed, args.factor, args.default))

FrameAddMissingReflectedEdges ==
  /\ pc = "start" /\ args.fn = "add_missing_reflected_edges"
  /\ Returned(add_missing_reflected_edges_call(<<G>>, 1))

FrameRemoveDuplicateEdges ==
  /\ pc = "start" /\ args.fn = "remove_duplicate_edges"
  /\ Returned(remove_duplicate_edges_call(<<G>>, 1, args.max_ratio))

FrameCustomSimplify ==
  /\ pc = "start" /\ args.fn = "custom_simplify"
  /\ Returned(custom_simplify_call(<<G>>, 1, args.strict))

NextFrame ==
  \/ FrameDisruptNetwork
  \/ FrameRandomlyDisruptNetwork
  \/ FrameConvertNetworkToTime
  \/ FrameAddMissingReflectedEdges
  \/ FrameRemoveDuplicateEdges
  \/ FrameCustomSimplify

SpecFrame == InitFrame /\ [][NextFrame]_vars

\* C18: disrupt_network, randomly_disrupt_network, convert_network_to_time,
\* add_missing_reflected_edges, remove_duplicate_edges and custom_simplify
\* leave the caller's input network unchanged: after the call its node set,
\* its edge set and every node and edge attribute value are what they were
\* before the call.
C18_InputNetworkUnchanged ==
  pc = "returned" => G = args.before

\* A call of custom_simplify that returned a network with fewer nodes than
\* the caller's.
C18_Witness ==
  /\ pc = "returned" /\ args.fn = "custom_simplify"
  /\ ret.raised = "none"
  /\ ret.G.nodes # G.nodes
  /\ ret.G.edges # G.edges

\* Some edge of G has no time attribute.
EdgesLackTime == \E k \in DOMAIN G.edges : "time" \notin DOMAIN G.edges[k]

\* C20: when generate_isochrones is called with no explicit weight it fails
\* with InvalidInput exactly when the network's edges lack a time attribute,
\* and otherwise proceeds with 'time' as the weight; the presence or absence
\* of a 'time' key on the nodes plays no part.  (Checked under SpecIso,
\* whose calls all pass a non-empty list of origins.)
C20_DefaultWeightNeedsTimeOnEdgesOnly ==
  (pc \in {"iso1", "iso2"} /\ args.weight = "None") =>
    \A i \in DOMAIN ret : (ret[i].raised = "ValueError") <=> EdgesLackTime

(***************************************************************************)
(* Map-extract download: download_osm.                                     *)
(*                                                                         *)
(* A coordinate is held in units of 1e-9 degree.  The file system is the   *)
(* function files from the paths that exist to their content; the remote   *)
(* service is its current version and the log of the requests it got, and  *)
(* it answers a request with <<request, version>>.                         *)
(***************************************************************************)
\* "{:.Nf}".format(x) and "%f" % x: x rounded to a multiple of unit, the
\* nearest one, the even one on a tie.
format(x, unit) ==
  LET q == x \div unit
      r == x % unit
  IN  IF 2 * r < unit THEN q
      ELSE IF 2 * r > unit THEN q + 1
      ELSE IF q % 2 = 0 THEN q ELSE q + 1

\* cachedTileFilename
cachedTileFilename(left, bottom, right, top) ==
  <<"osm_map", format(left, 10), format(bottom, 10), format(right, 10),
    format(top, 10)>>

\* The request sent to the web api, with "%f" coordinates.
request(left, bottom, right, top) ==
  <<"map?bbox", format(left, 1000), format(bottom, 1000), format(right, 1000),
    format(top, 1000)>>

\* A download that never looks into the cache folder.
download_osm_without_lookup(env, left, bottom, right, top, cache, cacheTempDir, online) ==
  LET osmFile == <<cacheTempDir, cachedTileFilename(left, bottom, right, top)>>
      asked == request(left, bottom, right, top)
      content == <<asked, env.version>>
      logged == [env EXCEPT !.requests = Append(@, asked)]
  IN  IF ~online THEN [raised |-> "URLError", fp |-> <<>>, env |-> logged]
      ELSE IF cache
      THEN [raised |-> "none", fp |-> content,
            env |-> [logged EXCEPT
                       !.files = [p \in DOMAIN @ \cup {osmFile} |->
                                    IF p = osmFile THEN content ELSE @[p]]]]
      ELSE [raised |-> "none", fp |-> content, env |-> logged]

\* download_osm(left, bottom, right, top, cache, cacheTempDir) in the
\* environment env, the remote service answering or not (online):
\* [raised, fp, env], the exception raised, the content of the returned
\* stream and the environment after the call.
download_osm(env, left, bottom, right, top, cache, cacheTempDir, online) ==
  LET osmFile == <<cacheTempDir, cachedTileFilename(left, bottom, right, top)>>
      asked == request(left, bottom, right, top)
      content == <<asked, env.version>>
      logged == [env EXCEPT !.requests = Append(@, asked)]
      written == [logged EXCEPT
                    !.files = [p \in DOMAIN @ \cup {osmFile} |->
                                 IF p = osmFile THEN content ELSE @[p]]]
  IN  IF cache /\ osmFile \in DOMAIN env.files
      THEN [raised |-> "none", fp |-> env.files[osmFile], env |-> env]
      ELSE IF ~online THEN [raised |-> "URLError", fp |-> <<>>, env |-> logged]
      ELSE IF cache
      THEN [raised |-> "none", fp |-> written.files[osmFile], env |-> written]
      ELSE [raised |-> "none", fp |-> content, env |-> logged]

(***************************************************************************)
(* SpecDownload: a series of downloads while the remote data changes.      *)
(* args and ret hold the calls made so far and what each returned.         *)
(***************************************************************************)
MaxCalls == 3

MaxVersion == 1

\* Bounding boxes <<left, bottom, right, top>>: the first two agree to
\* eight decimals, the first and the third to six.
BoundingBoxes ==
  {<<0, 0, 2000, 2000>>, <<4, 0, 2000, 2000>>, <<16, 0, 2000, 2000>>,
   <<0, 0, 2000, 3000>>}

CacheDirs == {"/tmp/tmpOSM/", "/tmp/other/"}

InitDownload ==
  /\ pc = "start"
  /\ G = [files |-> <<>>, version |-> 0, requests |-> <<>>]
  /\ args = <<>>
  /\ ret = <<>>

\* fp = download_osm(left, bottom, right, top, cache = ..., cacheTempDir = ...)
DownloadOsm ==
  /\ Len(args) < MaxCalls
  /\ \E bbox \in BoundingBoxes, cache \in BOOLEAN, dir \in CacheDirs,
        online \in BOOLEAN :
       LET done == download_osm(G, bbox[1], bbox[2], bbox[3], bbox[4],
                                cache, dir, online)
       IN  /\ args' = Append(args, [bbox |-> bbox, cache |-> cache,
                                    cacheTempDir |-> dir])
           /\ ret' = Append(ret, [raised |-> done.raised, fp |-> done.fp])
           /\ G' = done.env
  /\ pc' = "called"

\* The remote data changes between two calls.
RemoteChanges ==
  /\ G.version < MaxVersion
  /\ G' = [G EXCEPT !.version = @ + 1]
  /\ UNCHANGED <<pc, args, ret>>

NextDownload == DownloadOsm \/ RemoteChanges

SpecDownload == InitDownload /\ [][NextDownload]_vars

\* The cache path of the i-th call.
CachePath(call) ==
  <<call.cacheTempDir,
    <<"osm_map", format(call.bbox[1], 10), format(call.bbox[2], 10),
      format(call.bbox[3], 10), format(call.bbox[4], 10)>>>>

\* The step is a call, the one recorded last in args'.
IsCall == Len(args') = Len(args) + 1

\* The call of the step sent a request to the remote service.
Requested == Len(G'.requests) > Len(G.requests)

\* C21: with caching enabled, once a download has completed for a bounding
\* box, every later call with caching enabled and the same bounding box (to
\* eight decimals, in the same cache folder) returns the cached content and
\* issues no remote request; a remote request is issued only when no cache
\* file for that bounding box exists, and its content is written to the
\* cache path before the stream is returned.
C21_CachedExtractIsReused ==
  [][IsCall =>
       LET j == Len(args')
           call == args'[j]
       IN  call.cache =>
             /\ \A i \in DOMAIN args :
                  (/\ args[i].cache /\ ret[i].raised = "none"
                   /\ CachePath(args[i]) = CachePath(call)) =>
                    /\ ret'[j].raised = "none"
                    /\ ret'[j].fp = ret[i].fp
                    /\ ~Requested
             /\ Requested => CachePath(call) \notin DOMAIN G.files
             /\ (Requested /\ ret'[j].raised = "none") =>
                  /\ CachePath(call) \in DOMAIN G'.files
                  /\ G'.files[CachePath(call)] = ret'[j].fp
                  /\ ret'[j].fp[1] = G'.requests[Len(G'.requests)]]_vars

\* Two cached downloads of bounding boxes that differ only after the eighth
\* decimal have completed with one remote request between them, the second
\* returning the content of the first, which the remote data has outdated.
C21_Witness ==
  /\ Len(args) >= 2
  /\ args[1].cache /\ args[2].cache
  /\ args[1].bbox # args[2].bbox
  /\ CachePath(args[1]) = CachePath(args[2])
  /\ ret[1].raised = "none" /\ ret[2].raised = "none"
  /\ ret[2].fp = ret[1].fp
  /\ G.version > ret[1].fp[2]
  /\ Len(G.requests) = 1

(***************************************************************************)
(* read_osm: the road graph of a parsed document.                          *)
(*                                                                         *)
(* The graph is a DiGraph: edges is the function from the node pairs that  *)
(* have an edge to the data of that edge.  A way carries its tags, the     *)
(* function from the keys it is tagged with to their values.  The length   *)
(* of an edge is held as the term <<"haversine", lon1, lat1, lon2, lat2>>. *)
(***************************************************************************)
\* G.add_path(nds, **attr) from the i-th node of nds on.
RECURSIVE add_path(_, _, _, _)
add_path(edges, nds, i, attr) ==
  IF i >= Len(nds) THEN edges
  ELSE add_path([p \in DOMAIN edges \cup {<<nds[i], nds[i + 1]>>} |->
                   IF p = <<nds[i], nds[i + 1]>> THEN attr ELSE edges[p]],
                nds, i + 1, attr)

\* nds[::-1]
reversed(nds) == [i \in 1..Len(nds) |-> nds[Len(nds) + 1 - i]]

\* The loop of read_osm over osm.ways from the k-th way on: [raised, edges].
\* w.tags['highway'] raises KeyError for a way without that tag.
RECURSIVE add_ways(_, _, _, _)
add_ways(ways, k, only_roads, edges) ==
  IF k > Len(ways) THEN [raised |-> "none", edges |-> edges]
  ELSE LET w == ways[k]
       IN  IF only_roads /\ "highway" \notin DOMAIN w.tags
           THEN add_ways(ways, k + 1, only_roads, edges)
           ELSE IF "highway" \notin DOMAIN w.tags
           THEN [raised |-> "KeyError", edges |-> edges]
           ELSE LET attr == [id |-> w.id, highway |-> w.tags["highway"]]
                    forward == add_path(edges, w.nds, 1, attr)
                IN  IF "oneway" \in DOMAIN w.tags /\ w.tags["oneway"] = "yes"
                    THEN add_ways(ways, k + 1, only_roads, forward)
                    ELSE add_ways(ways, k + 1, only_roads,
                                  add_path(forward, reversed(w.nds), 1, attr))

\* haversine(lon1, lat1, lon2, lat2, unit_m = True), not evaluated.
haversine(lon1, lat1, lon2, lat2) == <<"haversine", lon1, lat1, lon2, lat2>>

\* read_osm(filename_or_stream, only_roads) for the document with the
\* parsed nodes and ways: [raised, G].
read_osm(nodes, ways, only_roads) ==
  LET osm == OSM_init(DOMAIN nodes, ways)
      added == add_ways(osm.ways, 1, only_roads, <<>>)
      used == {p[1] : p \in DOMAIN added.edges} \cup {p[2] : p \in DOMAIN added.edges}
      node == [n \in used |-> [lat |-> nodes[n].lat, lon |-> nodes[n].lon,
                               id |-> nodes[n].id]]
  IN  IF osm.raised # "none" THEN [raised |-> osm.raised, G |-> <<>>]
      ELSE IF added.raised # "none" THEN [raised |-> added.raised, G |-> <<>>]
      ELSE [raised |-> "none",
            G |-> [node |-> node,
                   edges |-> [p \in DOMAIN added.edges |->
                     [id |-> added.edges[p].id,
                      highway |-> added.edges[p].highway,
                      length |-> haversine(node[p[1]].lon, node[p[1]].lat,
                                           node[p[2]].lon, node[p[2]].lat)]]]]

(***************************************************************************)
(* SpecRead: read_osm on a document of tagged ways.                        *)
(***************************************************************************)
NumReadNodes == 3

MaxReadWays == 2

MaxReadWayLen == 3

\* The tags of a way: with or without highway, and oneway absent, yes or no.
WayTags ==
  {t \in UNION {[keys -> {"residential", "yes", "no"}] :
                  keys \in SUBSET {"highway", "oneway"}} :
     /\ "highway" \in DOMAIN t => t["highway"] = "residential"
     /\ "oneway" \in DOMAIN t => t["oneway"] \in {"yes", "no"}}

InitRead ==
  /\ pc = "start"
  /\ \E k \in 0..MaxReadWays :
       \E nds \in [1..k -> NonEmptySeqsUpTo(1..NumReadNodes, MaxReadWayLen)],
          tags \in [1..k -> WayTags] :
         G = [nodes |-> [n \in 1..NumReadNodes |-> [id |-> n, lon |-> n, lat |-> 0]],
              ways |-> [i \in 1..k |-> [id |-> i, nds |-> nds[i], tags |-> tags[i]]]]
  /\ args \in [only_roads : BOOLEAN]
  /\ ret = [raised |-> "not called", G |-> <<>>]

\* G = read_osm(filename_or_stream, only_roads)
ReadOsm ==
  /\ pc = "start"
  /\ ret' = read_osm(G.nodes, G.ways, args.only_roads)
  /\ pc' = "read"
  /\ UNCHANGED <<G, args>>

NextRead == ReadOsm

SpecRead == InitRead /\ [][NextRead]_vars

\* The parsed ways the claim selects.
SelectedWays ==
  {k \in DOMAIN G.ways :
     Len(G.ways[k].nds) >= 2
       /\ (args.only_roads => "highway" \in DOMAIN G.ways[k].tags)}

OneWay(k) ==
  "oneway" \in DOMAIN G.ways[k].tags /\ G.ways[k].tags["oneway"] = "yes"

\* The node pairs the claim gives an edge.
ClaimedEdges ==
  UNION {{<<G.ways[k].nds[i], G.ways[k].nds[i + 1]>> :
            i \in 1..(Len(G.ways[k].nds) - 1)}
         \cup (IF OneWay(k) THEN {}
               ELSE {<<G.ways[k].nds[i + 1], G.ways[k].nds[i]>> :
                       i \in 1..(Len(G.ways[k].nds) - 1)}) : k \in SelectedWays}

\* C22: read_osm builds the edge set from the selected ways only (ways
\* tagged highway, or every way with at least 2 nodes when only_roads is
\* false, including ways with no highway tag): an edge for every consecutive
\* node pair of a selected way in forward order, and the reverse edges
\* exactly when the way is not tagged one-way.  Stated for the documents
\* whose ways all have at least 2 node references.
C22_EdgesOfSelectedWays ==
  (pc = "read" /\ \A k \in DOMAIN G.ways : Len(G.ways[k].nds) >= 2) =>
    /\ ret.raised = "none"
    /\ DOMAIN ret.G.edges = ClaimedEdges

(***************************************************************************)
(* Isochrone polygons: make_iso_polys.                                     *)
(*                                                                         *)
(* The returned frame is the sequence of its rows [geometry, thresh,       *)
(* nodez].  A polygon is held as the node set of the subgraph whose        *)
(* buffered nodes and edges it is the union of; str(n) is <<"str", n>>.    *)
(***************************************************************************)
\* sorted(trip_times, reverse = True)
RECURSIVE sorted_reverse(_)
sorted_reverse(s) ==
  IF s = <<>> THEN <<>>
  ELSE LET k == CHOOSE i \in DOMAIN s : \A j \in DOMAIN s : s[j] <= s[i]
       IN  <<s[k]>> \o sorted_reverse(RemoveAt(s, k))

str(n) == <<"str", n>>

\* The two loops of make_iso_polys from the i-th trip time and the j-th
\* origin on; st = [isochrone_polys, tt, nodez, _node_] are the locals, the
\* loop variable _node_ being <<>> while it is unbound.
RECURSIVE iso_polys_scan(_, _, _, _, _, _, _)
iso_polys_scan(net, origins, times, weight, i, j, st) ==
  IF i > Len(times) THEN st
  ELSE IF j > Len(origins)
  THEN iso_polys_scan(net, origins, times, weight, i + 1, 1, st)
  ELSE LET sub == ego_graph(net, origins[j], times[i], weight)
           bound == [st EXCEPT !._node_ = <<origins[j]>>]
       IN  iso_polys_scan(net, origins, times, weight, i, j + 1,
             IF Cardinality(sub) > 1
             THEN [bound EXCEPT !.isochrone_polys = Append(@, sub),
                                !.tt = Append(@, times[i]),
                                !.nodez = Append(@, str(origins[j]))]
             ELSE bound)

\* make_iso_polys(G, origins, trip_times, weight): [raised, gdf].  The
\* column nodez of the frame is filled with the loop variable _node_.
make_iso_polys(net, origins, trip_times, weight) ==
  IF ~(Len(origins) >= 1) THEN [raised |-> "ValueError", gdf |-> <<>>]
  ELSE
  LET st == iso_polys_scan(net, origins, sorted_reverse(trip_times), weight, 1, 1,
              [isochrone_polys |-> <<>>, tt |-> <<>>, nodez |-> <<>>,
               _node_ |-> <<>>])
  IN  IF st._node_ = <<>> THEN [raised |-> "NameError", gdf |-> <<>>]
      ELSE [raised |-> "none",
            gdf |-> [r \in DOMAIN st.isochrone_polys |->
                       [geometry |-> st.isochrone_polys[r],
                        thresh |-> st.tt[r],
                        nodez |-> st._node_[1]]]]

(***************************************************************************)
(* SpecPolys: make_iso_polys on a timed network.                           *)
(***************************************************************************)
MaxPolyEdges == 2

InitPolys ==
  /\ pc = "start"
  /\ \E n \in 1..NumNodes, k \in 0..MaxPolyEdges :
       \E es \in [1..k -> {e \in IsoEdges(n) : e.u # e.v}] :
         /\ Ascending(es)
         /\ G = [nodes |-> 1..n, edges |-> es]
  /\ args \in [origins : SeqsUpTo(G.nodes, MaxList),
               trip_times : SeqsUpTo(0..MaxThresh, MaxList)]
  /\ ret = [raised |-> "not called", gdf |-> <<>>]

\* gdf = make_iso_polys(G, origins, trip_times)
MakeIsoPolys ==
  /\ pc = "start"
  /\ ret' = make_iso_polys(G, args.origins, args.trip_times, "time")
  /\ pc' = "polys"
  /\ UNCHANGED <<G, args>>

NextPolys == MakeIsoPolys

SpecPolys == InitPolys /\ [][NextPolys]_vars

\* The (threshold, origin) pairs in the order of the claim: the positions
\* <<i, j>> of the trip times and origins, the larger trip time first.
PairBefore(p, q) ==
  \/ args.trip_times[p[1]] > args.trip_times[q[1]]
  \/ args.trip_times[p[1]] = args.trip_times[q[1]] /\ p[1] < q[1]
  \/ p[1] = q[1] /\ p[2] < q[2]

\* The pairs whose reachable subgraph has at least 2 nodes.
RowPairs ==
  {p \in (DOMAIN args.trip_times) \X (DOMAIN args.origins) :
     Cardinality({b \in G.nodes : Within(args.origins[p[2]], b, args.trip_times[p[1]])}) >= 2}

\* The nodes within trip time t of origin o.
ReachableWithin(o, t) == {b \in G.nodes : Within(o, b, t)}

\* C23: make_iso_polys returns one row per (threshold, origin) pair whose
\* reachable subgraph has at least 2 nodes, thresholds in descending order,
\* and each row's origin label is the origin from which that row's polygon
\* was computed (not the last origin of the loop).  Stated for at least one
\* origin and one trip time.
C23_OneRowPerPairLabelledWithItsOrigin ==
  (pc = "polys" /\ args.origins # <<>> /\ args.trip_times # <<>>) =>
    /\ ret.raised = "none"
    /\ Len(ret.gdf) = Cardinality(RowPairs)
    /\ \A p \in RowPairs :
         LET r == Cardinality({q \in RowPairs : PairBefore(q, p)}) + 1
         IN  /\ ret.gdf[r].thresh = args.trip_times[p[1]]
             /\ ret.gdf[r].geometry
                  = ReachableWithin(args.origins[p[2]], args.trip_times[p[1]])
             /\ ret.gdf[r].nodez = args.origins[p[2]]

\* The parsed ways with fewer than 2 node references.
ShortWays == {k \in DOMAIN G.ways : Len(G.ways[k].nds) < 2}

\* C24: when a parsed document contains a way with fewer than 2 node
\* references, constructing the OSM document completes without error, drops
\* that way, and keeps and splits every other way as usual (each of the
\* other ways is there, as sub-ways whose node sequences chain to its own).
\* SpecOSM.
C24_ShortWayIsDroppedWithoutError ==
  (pc = "parsed" /\ ShortWays # {}
     /\ \A k \in DOMAIN G.ways : Range(G.ways[k].nds) \subseteq G.nodes) =>
    /\ ret.raised = "none"
    /\ \A w \in DOMAIN ret.ways : ret.ways[w].id[1] \notin ShortWays
    /\ \A k \in DOMAIN G.ways \ ShortWays :
         LET subs == SelectSeq(ret.ways, LAMBDA way : way.id[1] = k)
         IN  /\ subs # <<>>
             /\ subs[1].nds[1] = G.ways[k].nds[1]
             /\ subs[Len(subs)].nds[Len(subs[Len(subs)].nds)]
                  = G.ways[k].nds[Len(G.ways[k].nds)]

(***************************************************************************)
(* Graph loading: combo_csv_to_graph and edges_and_nodes_csv_to_graph.     *)
(*                                                                         *)
(* A table is the sequence of its rows.  The order of list(set(...)) and   *)
(* the order in which networkx lists the strongly connected components are *)
(* not fixed by the source: every order is an outcome.                     *)
(***************************************************************************)
\* The orders a set can be listed in.
Orders(S) == {s \in [1..Cardinality(S) -> S] : IsInjective(s)}

\* The loop over list_of_subgraphs from its l-th entry on: max_ID when the
\* loop ends, <<>> while the name is unbound.
RECURSIVE largest_scan(_, _, _, _)
largest_scan(list_of_subgraphs, l, cur_max, max_ID) ==
  IF l > Len(list_of_subgraphs) THEN max_ID
  ELSE IF Len(list_of_subgraphs[l].edges) > cur_max
  THEN largest_scan(list_of_subgraphs, l + 1, Len(list_of_subgraphs[l].edges), <<l>>)
  ELSE largest_scan(list_of_subgraphs, l + 1, cur_max, max_ID)

\* The tail of both loaders: the relabelling and, if largest_G, the choice
\* of a component.  The outcomes [raised, G, list_of_subgraphs].
largest_G_of(built, largest_G) ==
  LET net == convert_node_labels_to_integers(built)
  IN  IF ~largest_G
      THEN {[raised |-> "none", G |-> net, list_of_subgraphs |-> <<>>]}
      ELSE {LET list_of_subgraphs == [i \in DOMAIN order |-> subgraph(net, order[i])]
                max_ID == largest_scan(list_of_subgraphs, 1, 0, <<>>)
            IN  IF max_ID = <<>>
                THEN [raised |-> "NameError", G |-> <<>>,
                      list_of_subgraphs |-> list_of_subgraphs]
                ELSE [raised |-> "none", G |-> list_of_subgraphs[max_ID[1]],
                      list_of_subgraphs |-> list_of_subgraphs] :
              order \in Orders(strongly_connected_components(net))}

\* combo_csv_to_graph(fpath, largest_G = ...) for the edge table edges.
combo_csv_to_graph(edges, largest_G) ==
  UNION {largest_G_of(
           add_edges_from(
             [nodes |-> [i \in DOMAIN node_bunch |->
                           [id |-> node_bunch[i], x |-> node_bunch[i], has_xy |-> TRUE]],
              edges |-> <<>>], edges, 1), largest_G) :
         node_bunch \in Orders({edges[k].u : k \in DOMAIN edges}
                                       \cup {edges[k].v : k \in DOMAIN edges})}

\* edges_and_nodes_csv_to_graph(fpath_nodes, fpath_edges, largest_G = ...)
\* for the node table nodes_df and the edge table edges_df.
edges_and_nodes_csv_to_graph(nodes_df, edges_df, largest_G) ==
  LET chck_set == {edges_df[k].u : k \in DOMAIN edges_df}
                    \cup {edges_df[k].v : k \in DOMAIN edges_df}
      node_bunch == SelectSeq(nodes_df, LAMBDA row : row.node_ID \in chck_set)
  IN  largest_G_of(
        add_edges_from(
          [nodes |-> [i \in DOMAIN node_bunch |->
                        [id |-> node_bunch[i].node_ID, x |-> node_bunch[i].x,
                         has_xy |-> TRUE]],
           edges |-> <<>>], edges_df, 1), largest_G)

(***************************************************************************)
(* SpecLoad: the two loaders on small tables.                              *)
(***************************************************************************)
NumLoadNodes == 3

MaxLoadEdges == 3

InitLoad ==
  /\ pc = "start"
  /\ \E k \in 0..MaxLoadEdges, present \in SUBSET (1..NumLoadNodes) :
       \E rows \in [1..k -> [u : 1..NumLoadNodes, v : 1..NumLoadNodes]] :
         G = [edges |-> rows,
              nodes |-> [i \in 1..Cardinality(present) |->
                           LET n == SortIdx(present, [m \in present |-> m])[i]
                           IN  [node_ID |-> n, x |-> n, y |-> 0]]]
  /\ args \in [largest_G : BOOLEAN]
  /\ ret = [raised |-> "not called", G |-> <<>>, list_of_subgraphs |-> <<>>]

\* G = combo_csv_to_graph(fpath, largest_G = ...)
ComboCsvToGraph ==
  /\ pc = "start"
  /\ ret' \in combo_csv_to_graph(G.edges, args.largest_G)
  /\ pc' = "combo"
  /\ UNCHANGED <<G, args>>

\* G = edges_and_nodes_csv_to_graph(fpath_nodes, fpath_edges, largest_G = ...)
EdgesAndNodesCsvToGraph ==
  /\ pc = "start"
  /\ ret' \in edges_and_nodes_csv_to_graph(G.nodes, G.edges, args.largest_G)
  /\ pc' = "tables"
  /\ UNCHANGED <<G, args>>

NextLoad == ComboCsvToGraph \/ EdgesAndNodesCsvToGraph

SpecLoad == InitLoad /\ [][NextLoad]_vars

\* C25: with keep-largest enabled, combo_csv_to_graph and
\* edges_and_nodes_from_tables return, for every non-empty input graph
\* (including one in which every strongly connected component has zero
\* edges), a strongly connected component whose edge count is maximal among
\* all components, taking the first encountered on a tie.
C25_LargestComponentIsReturned ==
  (pc \in {"combo", "tables"} /\ args.largest_G /\ G.edges # <<>>) =>
    /\ ret.raised = "none"
    /\ \E l \in DOMAIN ret.list_of_subgraphs :
         /\ ret.G = ret.list_of_subgraphs[l]
         /\ \A m \in DOMAIN ret.list_of_subgraphs :
              /\ Len(ret.list_of_subgraphs[m].edges) <= Len(ret.G.edges)
              /\ m < l => Len(ret.list_of_subgraphs[m].edges) < Len(ret.G.edges)

\* The nodes of the input network that pass the endpoint test.
Endpoints == {node \in G.nodes : is_endpoint(G, node, args.strict)}

\* C26: every path produced by custom_simplify's path building starts at an
\* endpoint node, has only interstitial (non-endpoint) nodes strictly
\* between its first and last node, and ends at an endpoint node (possibly
\* the starting one, for a closed loop), also when an interstitial node on
\* the chain has no outgoing edge.  SpecSimplify.
C26_PathsRunFromEndpointToEndpoint ==
  pc = "simplified" =>
    \A i \in DOMAIN ret.paths :
      LET path == ret.paths[i]
      IN  /\ path[1] \in Endpoints
          /\ \A j \in 2..(Len(path) - 1) : path[j] \notin Endpoints
          /\ path[Len(path)] \in Endpoints

(***************************************************************************)
(* Path building step by step.                                             *)
(*                                                                         *)
(* The calls of build_path are held as a stack of frames [node, i], the    *)
(* node of the call and the position of its loop over the successors of    *)
(* that node; the locals of get_paths_to_simplify are the record           *)
(* [endpoints, starts, si, sj, stack, path, paths, steps], where starts    *)
(* lists the nodes the outer loop visits, si and sj are the positions of   *)
(* the two outer loops and steps counts the loop iterations made so far.   *)
(***************************************************************************)
\* sys.getrecursionlimit(): the stack depth at which Python raises
\* RecursionError, a RuntimeError.
RecursionLimit == 1000

\* An outer loop that visits every node of the network.
path_starts_every_node(net, endpoints) == net.nodes

\* for node in endpoints: the nodes the outer loop visits.
path_starts(net, endpoints) == endpoints

\* The locals of get_paths_to_simplify before its loops.
paths_begin(net, strict) ==
  LET endpoints == {node \in net.nodes : is_endpoint(net, node, strict)}
      visited == path_starts(net, endpoints)
  IN  [endpoints |-> endpoints,
       starts |-> SortIdx(visited, [node \in visited |-> node]),
       si |-> 1, sj |-> 1, stack |-> <<>>, path |-> <<>>, paths |-> <<>>,
       steps |-> 0]

\* One iteration of the loops of get_paths_to_simplify, no call of
\* build_path being open.
paths_step(net, L) ==
  LET node == L.starts[L.si]
      succ == successors(net, node)
      counted == [L EXCEPT !.steps = @ + 1]
  IN  IF L.sj > Len(succ) THEN [counted EXCEPT !.si = @ + 1, !.sj = 1]
      ELSE IF succ[L.sj] \in L.endpoints THEN [counted EXCEPT !.sj = @ + 1]
      ELSE [counted EXCEPT !.sj = @ + 1,
                           !.path = <<node, succ[L.sj]>>,
                           !.stack = <<[node |-> succ[L.sj], i |-> 1]>>]

\* The innermost call of build_path returns path to its caller, the outer
\* loop appending it to paths_to_simplify when that call was the first.
build_return(L, path) ==
  LET popped == SubSeq(L.stack, 1, Len(L.stack) - 1)
  IN  IF popped = <<>>
      THEN [L EXCEPT !.stack = <<>>, !.path = <<>>, !.paths = Append(@, path)]
      ELSE [L EXCEPT !.stack = popped, !.path = path]

\* One iteration of the loop of the innermost call of build_path, or its
\* closing of a self loop and return when the loop is over.
build_step(net, L) ==
  LET top == L.stack[Len(L.stack)]
      succ == successors(net, top.node)
      last == L.path[Len(L.path)]
      counted == [L EXCEPT !.steps = @ + 1]
      advanced == [counted EXCEPT !.stack[Len(L.stack)].i = @ + 1]
  IN  IF top.i > Len(succ)
      THEN IF last \notin L.endpoints /\ L.path[1] \in Range(successors(net, last))
           THEN build_return(counted, Append(L.path, L.path[1]))
           ELSE build_return(counted, L.path)
      ELSE IF succ[top.i] \in Range(L.path) THEN advanced
      ELSE IF succ[top.i] \in L.endpoints
      THEN build_return(counted, Append(L.path, succ[top.i]))
      ELSE IF Len(L.stack) >= RecursionLimit
      THEN [counted EXCEPT !.stack = <<>>, !.path = <<>>]
      ELSE [advanced EXCEPT !.path = Append(@, succ[top.i]),
                            !.stack = Append(@, [node |-> succ[top.i], i |-> 1])]

\* The main process of custom_simplify for the paths built.
simplify_paths(net, paths) ==
  LET all_edges_to_add == [i \in DOMAIN paths |-> edge_for_path(net, paths[i])]
      all_nodes_to_remove ==
        UNION {{paths[i][j] : j \in 2..(Len(paths[i]) - 1)} : i \in DOMAIN paths}
      added == [net EXCEPT !.edges = @ \o all_edges_to_add]
      out == remove_nodes_from(added, all_nodes_to_remove)
  IN  [nodes |-> out.nodes, edges |-> out.edges, paths |-> paths]

(***************************************************************************)
(* SpecCycles: custom_simplify, its path building taken step by step, on a *)
(* network of two parts, the nodes 1..CycleNodes and the nodes above them, *)
(* with no edge between the parts and no self-loop.                        *)
(***************************************************************************)
CycleNodes == 3

MaxCycleEdges == 3

MaxChainEdges == 2

\* The edges of one part of the network.
PartEdges(part) ==
  {e \in WayEdges(2 * CycleNodes) :
     e.u \in part /\ e.v \in part /\ e.u # e.v /\ e.length = 1}

InitCycles ==
  /\ pc = "start"
  /\ \E k1 \in 0..MaxCycleEdges, k2 \in 0..MaxChainEdges :
       \E es1 \in [1..k1 -> PartEdges(1..CycleNodes)],
          es2 \in [1..k2 -> PartEdges((CycleNodes + 1)..(2 * CycleNodes))] :
         G = [nodes |-> 1..(2 * CycleNodes), edges |-> es1 \o es2]
  /\ args \in [strict : BOOLEAN]
  /\ ret = <<>>

\* paths = get_paths_to_simplify(G, strict = strict), up to its loops
BeginPaths ==
  /\ pc = "start"
  /\ ret' = paths_begin(G, args.strict)
  /\ pc' = "paths"
  /\ UNCHANGED <<G, args>>

PathsStep ==
  /\ pc = "paths" /\ ret.stack = <<>> /\ ret.si <= Len(ret.starts)
  /\ ret' = paths_step(G, ret)
  /\ UNCHANGED <<pc, G, args>>

BuildStep ==
  /\ pc = "paths" /\ ret.stack # <<>>
  /\ ret' = build_step(G, ret)
  /\ UNCHANGED <<pc, G, args>>

\* the loops are over: the paths are simplified and the network returned
SimplifyPaths ==
  /\ pc = "paths" /\ ret.stack = <<>> /\ ret.si > Len(ret.starts)
  /\ ret' = simplify_paths(G, ret.paths)
  /\ pc' = "simplified"
  /\ UNCHANGED <<G, args>>

NextCycles == BeginPaths \/ PathsStep \/ BuildStep \/ SimplifyPaths

SpecCycles == InitCycles /\ [][NextCycles]_vars

\* The weakly connected component of the nodes of S in the input network.
RECURSIVE Joined(_)
Joined(S) ==
  LET S2 == S \cup {G.edges[k].v : k \in {j \in DOMAIN G.edges : G.edges[j].u \in S}}
               \cup {G.edges[k].u : k \in {j \in DOMAIN G.edges : G.edges[j].v \in S}}
  IN  IF S2 = S THEN S ELSE Joined(S2)

\* The weakly connected components in which no node passes the endpoint test.
PureCycles == {C \in {Joined({a}) : a \in G.nodes} : C \cap Endpoints = {}}

\* The edges of a network whose two ends are in C, in order.
EdgesWithin(edges, C) == SelectSeq(edges, LAMBDA e : e.u \in C /\ e.v \in C)

\* The loop iterations a terminating path building can take at most: the
\* outer loops pass once over each node and each of its edges, and so do
\* the calls of build_path for each of the paths, of which there is at most
\* one per edge.
MostSteps == (Cardinality(G.nodes) + Len(G.edges)) * (Len(G.edges) + 1)

\* C27: custom_simplify terminates on every finite network (its path
\* building never takes more loop iterations than the size of the network
\* allows, and then returns), and for a weakly connected component in which
\* no node passes the endpoint test (a pure cycle) it raises no error and
\* leaves that component's nodes and edges exactly as in the input.
C27_TerminatesAndLeavesPureCycles ==
  /\ pc = "paths" =>
       /\ ret.steps <= MostSteps
       /\ Len(ret.stack) <= Cardinality(G.nodes)
       /\ \A C \in PureCycles : \A f \in DOMAIN ret.stack : ret.stack[f].node \notin C
  /\ pc = "simplified" =>
       \A C \in PureCycles :
         /\ C \subseteq ret.nodes
         /\ EdgesWithin(ret.edges, C) = EdgesWithin(G.edges, C)
         /\ \A k \in DOMAIN ret.edges : ret.edges[k].u \in C <=> ret.edges[k].v \in C

\* The call has returned for a network with a pure cycle and a second part
\* that it has simplified along a path.
C27_Witness ==
  /\ pc = "simplified"
  /\ PureCycles # {}
  /\ ret.paths # <<>>
  /\ ret.nodes # G.nodes

\* C28: remove_duplicate_edges never disconnects a node pair: every ordered
\* pair (u, v) that has at least one edge in the input still has at least
\* one edge (u, v) in the result, and in particular a pair joined by exactly
\* one edge (with or without a reverse edge (v, u)) keeps that edge.  SpecDup.
C28_NoNodePairIsDisconnected ==
  pc = "deduplicated" =>
    \A u, v \in G.nodes :
      /\ number_of_edges(G.edges, u, v) >= 1 => number_of_edges(ret.edges, u, v) >= 1
      /\ number_of_edges(G.edges, u, v) = 1 =>
           ParallelLengths(ret, u, v) = ParallelLengths(G, u, v)

(***************************************************************************)
(* Parsing: the SAX handler of OSM.__init__.                               *)
(*                                                                         *)
(* The objects the handler creates are held in a heap, the sequence of the *)
(* Node and Way records in the order of their creation; currElem and the   *)
(* entries of the dictionaries nodes and ways are references into it (0    *)
(* for currElem while the attribute is not set).  A dictionary is a        *)
(* function from its keys.                                                 *)
(***************************************************************************)
\* OSMHandler.startElement(name, attrs) in the handler state h =
\* [heap, currElem, nodes, ways, raised].
startElement(h, name, attrs) ==
  IF name = "node"
  THEN [h EXCEPT !.heap = Append(@, [kind |-> "Node", id |-> attrs.id, tags |-> <<>>]),
                 !.currElem = Len(h.heap) + 1]
  ELSE IF name = "way"
  THEN [h EXCEPT !.heap = Append(@, [kind |-> "Way", id |-> attrs.id, nds |-> <<>>,
                                     tags |-> <<>>]),
                 !.currElem = Len(h.heap) + 1]
  ELSE IF name = "tag"
  THEN IF h.currElem = 0 THEN [h EXCEPT !.raised = "AttributeError"]
       ELSE [h EXCEPT !.heap[h.currElem].tags = setitem(@, attrs.k, attrs.v)]
  ELSE IF name = "nd"
  THEN IF h.currElem = 0 \/ h.heap[h.currElem].kind # "Way"
       THEN [h EXCEPT !.raised = "AttributeError"]
       ELSE [h EXCEPT !.heap[h.currElem].nds = Append(@, attrs.ref)]
  ELSE h

\* OSMHandler.endElement(name)
endElement(h, name) ==
  IF name = "node"
  THEN [h EXCEPT !.nodes = setitem(@, h.heap[h.currElem].id, h.currElem)]
  ELSE IF name = "way"
  THEN [h EXCEPT !.ways = setitem(@, h.heap[h.currElem].id, h.currElem)]
  ELSE h

(***************************************************************************)
(* SpecParse: the events of a well-formed document, delivered one by one.  *)
(* G is the log of the events delivered, args the stack of the elements    *)
(* that are open, ret the state of the handler.                            *)
(***************************************************************************)
MaxEvents == 8

TagAttrs == [k : {"highway", "name"}, v : {"primary", "path"}]

\* The elements that may start inside the open elements.
Children(open) ==
  IF open = <<>> THEN {"node", "way", "relation"}
  ELSE IF Len(open) > 1 THEN {}
  ELSE IF open[1] = "node" THEN {"tag"}
  ELSE IF open[1] = "way" THEN {"tag", "nd"}
  ELSE {"tag", "member"}

\* The attributes of an element; a node or a way gets the next free id.
Attrs(name) ==
  IF name \in {"node", "way", "relation"}
  THEN {[id |-> Cardinality({i \in DOMAIN G : G[i].event = "start"
                                                /\ G[i].name \in {"node", "way", "relation"}}) + 1]}
  ELSE IF name = "tag" THEN TagAttrs
  ELSE {[ref |-> 1]}

InitParse ==
  /\ pc = "parsing"
  /\ G = <<>>
  /\ args = <<>>
  /\ ret = [heap |-> <<>>, currElem |-> 0, nodes |-> <<>>, ways |-> <<>>,
            raised |-> "none"]

StartElement ==
  /\ pc = "parsing" /\ ret.raised = "none" /\ Len(G) < MaxEvents
  /\ \E name \in Children(args) : \E attrs \in Attrs(name) :
       /\ ret' = startElement(ret, name, attrs)
       /\ G' = Append(G, [event |-> "start", name |-> name, attrs |-> attrs])
       /\ args' = Append(args, name)
  /\ UNCHANGED pc

EndElement ==
  /\ pc = "parsing" /\ ret.raised = "none" /\ Len(G) < MaxEvents
  /\ args # <<>>
  /\ ret' = endElement(ret, args[Len(args)])
  /\ G' = Append(G, [event |-> "end", name |-> args[Len(args)], attrs |-> <<>>])
  /\ args' = SubSeq(args, 1, Len(args) - 1)
  /\ UNCHANGED pc

NextParse == StartElement \/ EndElement

SpecParse == InitParse /\ [][NextParse]_vars

\* The position in the log of the start of the node or way with this id.
StartOf(id) ==
  CHOOSE p \in DOMAIN G :
    G[p].event = "start" /\ G[p].name \in {"node", "way"} /\ G[p].attrs.id = id

\* The position in the log of the end of the element started at p, or the
\* end of the log while it is open.
EndOf(p) ==
  Min({q \in DOMAIN G : q > p /\ G[q].event = "end" /\ G[q].name = G[p].name}
        \cup {Len(G) + 1})

\* The tags of the tag elements at the positions p..q of the log, a later
\* one replacing an earlier one of the same key.
RECURSIVE TagsIn(_, _)
TagsIn(p, q) ==
  IF p > q THEN <<>>
  ELSE IF G[q].event = "start" /\ G[q].name = "tag"
  THEN setitem(TagsIn(p, q - 1), G[q].attrs.k, G[q].attrs.v)
  ELSE TagsIn(p, q - 1)

\* C29: for any sequence of start/end element events, the tags stored on a
\* parsed node or way are exactly the tag elements nested inside that
\* node's or way's own element: a tag element that occurs inside any other
\* element (a relation, or after the node or way has ended) never changes
\* the tags of an already stored node or way.
C29_TagsComeFromOwnElementOnly ==
  \A stored \in {ret.nodes[n] : n \in DOMAIN ret.nodes}
                 \cup {ret.ways[w] : w \in DOMAIN ret.ways} :
    LET p == StartOf(ret.heap[stored].id)
    IN  ret.heap[stored].tags = TagsIn(p + 1, EndOf(p) - 1)

\* The sub-ways of the k-th parsed way in the constructed document, in order.
SubWays(k) == SelectSeq(ret.ways, LAMBDA way : way.id[1] = k)

\* The node sequences of sub-ways joined, each boundary node taken once.
RECURSIVE Merged(_)
Merged(subs) ==
  IF subs = <<>> THEN <<>>
  ELSE IF Len(subs) = 1 THEN subs[1].nds
  ELSE subs[1].nds \o Tail(Merged(Tail(subs)))

\* C30: splitting a way is lossless: the sub-ways get the ids '<id>-0',
\* '<id>-1', ... in order, each has at least 2 nodes, each consecutive pair
\* of sub-ways shares exactly its boundary node (the last node of the one
\* is the first node of the other, and they overlap in no further
\* position), and concatenating them in order, merging each shared boundary
\* node once, gives back the original way's node sequence.  SpecOSM.
C30_SplitIsLossless ==
  (pc = "parsed" /\ ret.raised = "none") =>
    \A k \in DOMAIN G.ways :
      LET subs == SubWays(k)
      IN  /\ subs # <<>>
          /\ \A i \in DOMAIN subs :
               /\ subs[i].id = <<G.ways[k].id, i - 1>>
               /\ Len(subs[i].nds) >= 2
               /\ i < Len(subs) => subs[i].nds[Len(subs[i].nds)] = subs[i + 1].nds[1]
          /\ Merged(subs) = G.ways[k].nds
          /\ SumSeq([i \in DOMAIN subs |-> Len(subs[i].nds)])
               = Len(G.ways[k].nds) + Len(subs) - 1

\* A document constructed from two ways, one of them split into three
\* sub-ways.
C30_Witness ==
  /\ pc = "parsed" /\ ret.raised = "none"
  /\ \E k \in DOMAIN G.ways : Len(SubWays(k)) >= 3
====
